---------------------------- MODULE Spec2Model ----------------------------
(***************************************************************************)
(* A model of the Markdown message engine of mdbook-i18n-helpers:          *)
(*   - UniquePathBuilder         (i18n-helpers/src/xgettext/paths.rs)      *)
(*   - extract_events, group_events, parse_codeblock, reconstruct_markdown,*)
(*     extract_messages, trim_paragraph, translate_events                  *)
(*                               (i18n-helpers/src/lib.rs)                 *)
(*   - add_message, strip_link, create_catalogs                            *)
(*                               (i18n-helpers/src/xgettext.rs)            *)
(*   - normalize                 (i18n-helpers/src/normalize.rs)           *)
(*                                                                         *)
(* Text is a sequence of tokens (one-character strings and a few lexemes   *)
(* such as a link opener); a path is a sequence of path components.        *)
(***************************************************************************)
EXTENDS Integers, Sequences, FiniteSets, TLC

VARIABLES
    \* ---- UniquePathBuilder, two instances driven by the same calls
    pb1, pb2,       \* the two builders
    pbops,          \* number of push/pop calls made so far
    allocs,         \* paths returned by get() right after each extending push
    pushes,         \* log: one entry per extending push
    \* ---- group_events and translate_events over one event stream
    gev,            \* the events read so far
    gst,            \* State of group_events
    gctx,           \* GroupingContext
    ggroups,        \* the groups emitted so far
    emits,          \* log: one entry per call of into_groups in State::Translate
    gphase,         \* "grouping", "grouped" or "translated"
    tcat,           \* the catalog handed to translate_events
    tsegs,          \* per group, the events translate_events wrote for it
    gdoc,           \* the Markdown text the events were extracted from, if any
    \* ---- create_catalogs
    scatalog,       \* the catalog of the book metadata and the summary
    catalogs,       \* HashMap<PathBuf, Catalog>: path -> messages
    cpb,            \* unique_path_builder
    cgran,          \* granularity
    cphase,         \* "metadata", "summary", "insert", "walk" or "done"
    cqueue,         \* the calls of add_message still to be made, in order
    cnest,          \* the chapters entered and not yet left
    citems,         \* the book items walked so far
    cwalk,          \* log: one entry per part title and per chapter walked,
                    \* with its nesting level and what get() returns for it
    \* ---- normalize
    ncats,          \* a catalog followed by the results of normalizing it again and again
    nnew,           \* new_messages of the last run of normalize, entry by entry
    \* ---- build_source
    bsargs,         \* the arguments of a call of build_source
    bsret,          \* what the call returned, once it has been made
    \* ---- Gettext::run
    pctx,           \* the PreprocessorContext and the PO file it points to
    pbook,          \* the book handed to run
    pret            \* what run returned, once it has been called

PathVars == <<pb1, pb2, pbops, allocs, pushes>>
GroupVars == <<gev, gst, gctx, ggroups, emits, gphase, tcat, tsegs, gdoc>>
CatalogVars == <<scatalog, catalogs, cpb, cgran, cphase, cqueue, cnest, citems, cwalk>>
NormVars == <<ncats, nnew>>
SourceVars == <<bsargs, bsret>>
RunVars == <<pctx, pbook, pret>>

vars == <<pb1, pb2, pbops, allocs, pushes, gev, gst, gctx, ggroups, emits, gphase, tcat, tsegs, gdoc,
          scatalog, catalogs, cpb, cgran, cphase, cqueue, cnest, citems, cwalk,
          ncats, nnew, bsargs, bsret, pctx, pbook, pret>>

(***************************************************************************)
(* Generic helpers on sequences.                                           *)
(***************************************************************************)
RECURSIVE Concat(_)
Concat(ss) == IF ss = <<>> THEN <<>> ELSE Head(ss) \o Concat(Tail(ss))

RECURSIVE StrJoin(_)
\* The characters of a sequence glued into one string.
StrJoin(cs) == IF cs = <<>> THEN "" ELSE Head(cs) \o StrJoin(Tail(cs))

Last(s) == s[Len(s)]
Front(s) == SubSeq(s, 1, Len(s) - 1)

(***************************************************************************)
(* Bounds of the UniquePathBuilder specification.                          *)
(***************************************************************************)
MaxPathOps == 5
MaxDepthKnob == 2

\* Chapter and part names pushed by the driver, as character sequences.
PushNames ==
    { <<"F", "o", "o">>,
      <<"f", "o", "o", " ", "1">>,
      <<"C", "+", "+">>,
      <<"!", " ">>,
      <<"m", "e", "s", "s", "a", "g", "e", "s">> }

\* HashMap::new() seeds its hasher at random: the two instances differ in it.
HashSeeds == {1, 2}

\* The longer runs of SpecPathDeep and the names pushed in them.
MaxDeepOps == 10

DeepNames ==
    { <<"F", "o", "o">>,
      <<"f", "o", "o", " ", "1">> }

(***************************************************************************)
(* slug: paths.rs 97-115.                                                  *)
(***************************************************************************)
to_lowercase(ch) ==
    CASE ch = "F" -> "f"
      [] ch = "C" -> "c"
      [] OTHER -> ch

RECURSIVE replace_cpp(_)
\* str::replace("c++", "cpp"): leftmost, non-overlapping.
replace_cpp(cs) ==
    IF cs = <<>> THEN <<>>
    ELSE IF Len(cs) >= 3 /\ SubSeq(cs, 1, 3) = <<"c", "+", "+">>
         THEN <<"c", "p", "p">> \o replace_cpp(SubSeq(cs, 4, Len(cs)))
         ELSE <<Head(cs)>> \o replace_cpp(Tail(cs))

is_whitespace(ch) == ch \in {" ", "\t", "\n"}

is_ascii_alphanumeric(ch) ==
    ch \in {"a", "b", "c", "d", "e", "f", "g", "h", "i", "j", "k", "l", "m",
            "n", "o", "p", "q", "r", "s", "t", "u", "v", "w", "x", "y", "z",
            "0", "1", "2", "3", "4", "5", "6", "7", "8", "9"}

RECURSIVE split_whitespace_from(_, _)
\* The maximal whitespace-free runs of cs; cur is the run being read.
split_whitespace_from(cs, cur) ==
    IF cs = <<>> THEN (IF cur = <<>> THEN <<>> ELSE <<cur>>)
    ELSE IF is_whitespace(Head(cs))
         THEN (IF cur = <<>> THEN <<>> ELSE <<cur>>)
                  \o split_whitespace_from(Tail(cs), <<>>)
         ELSE split_whitespace_from(Tail(cs), Append(cur, Head(cs)))

split_whitespace(cs) == split_whitespace_from(cs, <<>>)

slug_keep(ch) == ch = "-" \/ is_ascii_alphanumeric(ch)

RECURSIVE join_words(_, _)
join_words(ws, sep) ==
    IF ws = <<>> THEN <<>>
    ELSE IF Len(ws) = 1 THEN Head(ws)
    ELSE Head(ws) \o sep \o join_words(Tail(ws), sep)

slug(title) ==
    LET lowered  == replace_cpp([i \in DOMAIN title |-> to_lowercase(title[i])])
        words    == split_whitespace(lowered)
        filtered == [i \in DOMAIN words |-> SelectSeq(words[i], slug_keep)]
        kept     == SelectSeq(filtered, LAMBDA w : w # <<>>)
        joined   == join_words(kept, <<"-">>)
    IN  IF joined = <<>> THEN "null" ELSE StrJoin(joined)

(***************************************************************************)
(* UniquePathBuilder: paths.rs 30-93.                                      *)
(***************************************************************************)
DEFAULT_DEPTH_0 == "messages"
POT_EXTENSION == "pot"

Digit(d) == CASE d = 0 -> "0" [] d = 1 -> "1" [] d = 2 -> "2" [] d = 3 -> "3"
              [] d = 4 -> "4" [] d = 5 -> "5" [] d = 6 -> "6" [] d = 7 -> "7"
              [] d = 8 -> "8" [] d = 9 -> "9"

RECURSIVE Decimal(_)
\* format!("{}", n)
Decimal(n) == IF n < 10 THEN Digit(n) ELSE Decimal(n \div 10) \o Digit(n % 10)

\* PathBuf::with_extension on a file name without a dot.
with_extension(path, ext) ==
    [path EXCEPT ![Len(path)] = @ \o "." \o ext]

UniquePathBuilder_new(max_depth, seed) ==
    [ current_path  |-> <<>>,
      current_depth |-> 0,
      max_depth     |-> max_depth,
      frequency_map |-> <<>>,
      hash_seed     |-> seed ]

format_path_with_counter_seeded(b) ==
    IF b.current_path \notin DOMAIN b.frequency_map
         \/ b.frequency_map[b.current_path] = 0
    THEN b.current_path
    ELSE [b.current_path EXCEPT ![Len(b.current_path)] =
              @ \o "-" \o Decimal(b.hash_seed)]

format_path_with_counter(b) ==
    IF b.current_path \notin DOMAIN b.frequency_map
         \/ b.frequency_map[b.current_path] = 0
    THEN b.current_path
    ELSE [b.current_path EXCEPT ![Len(b.current_path)] =
              @ \o "-" \o Decimal(b.frequency_map[b.current_path])]

get_of_current_depth_only(b) ==
    IF b.current_depth = 0
    THEN with_extension(<<DEFAULT_DEPTH_0>>, POT_EXTENSION)
    ELSE with_extension(format_path_with_counter(b), POT_EXTENSION)

get(b) ==
    IF b.max_depth = 0 \/ b.current_depth = 0
    THEN with_extension(<<DEFAULT_DEPTH_0>>, POT_EXTENSION)
    ELSE with_extension(format_path_with_counter(b), POT_EXTENSION)

push_past_max_depth(b, s) ==
    LET path == Append(format_path_with_counter(b), slug(s))
        fm   == b.frequency_map
    IN  [b EXCEPT !.current_depth = @ + 1,
                  !.current_path = path,
                  !.frequency_map =
                      IF path \in DOMAIN fm
                      THEN [fm EXCEPT ![path] = @ + 1]
                      ELSE [q \in DOMAIN fm \cup {path} |->
                               IF q = path THEN 0 ELSE fm[q]]]

push(b, s) ==
    LET depth == b.current_depth + 1 IN
    IF depth > b.max_depth
    THEN [b EXCEPT !.current_depth = depth]
    ELSE LET path == Append(format_path_with_counter(b), slug(s))
             fm   == b.frequency_map
         IN  [b EXCEPT !.current_depth = depth,
                       !.current_path = path,
                       !.frequency_map =
                           IF path \in DOMAIN fm
                           THEN [fm EXCEPT ![path] = @ + 1]
                           ELSE [q \in DOMAIN fm \cup {path} |->
                                    IF q = path THEN 0 ELSE fm[q]]]

pop_always_shortening(b) ==
    IF b.current_depth = 0 THEN b
    ELSE [b EXCEPT !.current_depth = @ - 1,
                   !.current_path = IF @ # <<>> THEN Front(@) ELSE @]

pop(b) ==
    IF b.current_depth = 0 THEN b
    ELSE [b EXCEPT !.current_depth = @ - 1,
                   !.current_path =
                       IF b.current_depth <= b.max_depth /\ @ # <<>>
                       THEN Front(@) ELSE @]

(***************************************************************************)
(* SpecPath: any sequence of push/pop on two builders with the same        *)
(* max_depth and different hasher seeds.                                   *)
(***************************************************************************)
\* The variables of the other specifications, at rest.
GroupIdle ==
    /\ gev = <<>> /\ gst = <<>> /\ gctx = <<>> /\ ggroups = <<>> /\ emits = <<>>
    /\ gphase = "idle" /\ tcat = <<>> /\ tsegs = <<>> /\ gdoc = <<>>

PathIdle == pb1 = <<>> /\ pb2 = <<>> /\ pbops = 0 /\ allocs = <<>> /\ pushes = <<>>

CatalogIdle ==
    /\ scatalog = <<>> /\ catalogs = <<>> /\ cpb = <<>> /\ cgran = 0
    /\ cphase = "idle" /\ cqueue = <<>> /\ cnest = 0 /\ citems = 0
    /\ cwalk = <<>>

NormIdle == ncats = <<>> /\ nnew = <<>>

SourceIdle == bsargs = <<>> /\ bsret = <<>>

RunIdle == pctx = <<>> /\ pbook = <<>> /\ pret = <<>>

PathInit ==
    /\ \E d \in 0..MaxDepthKnob : \E s1, s2 \in HashSeeds :
          /\ s1 # s2
          /\ pb1 = UniquePathBuilder_new(d, s1)
          /\ pb2 = UniquePathBuilder_new(d, s2)
    /\ pbops = 0
    /\ allocs = <<>>
    /\ pushes = <<>>
    /\ GroupIdle
    /\ CatalogIdle
    /\ NormIdle
    /\ SourceIdle
    /\ RunIdle

\* The log of the extending pushes: the path that was pushed (the key of
\* frequency_map), the depth it was pushed to and what get() returned then.
log_push(log, b) ==
    IF b.current_depth <= b.max_depth
    THEN Append(log, [ key   |-> b.current_path,
                       depth |-> b.current_depth,
                       got   |-> get(b) ])
    ELSE log

PbPush ==
    /\ pb1 # <<>>
    /\ pbops < MaxPathOps
    /\ \E s \in PushNames :
          /\ pb1' = push(pb1, s)
          /\ pb2' = push(pb2, s)
          /\ allocs' = IF pb1'.current_depth <= pb1'.max_depth
                       THEN Append(allocs, get(pb1'))
                       ELSE allocs
          /\ pushes' = log_push(pushes, pb1')
    /\ pbops' = pbops + 1
    /\ UNCHANGED <<GroupVars, CatalogVars, NormVars, SourceVars, RunVars>>

PbPop ==
    /\ pb1 # <<>>
    /\ pbops < MaxPathOps
    /\ pb1' = pop(pb1)
    /\ pb2' = pop(pb2)
    /\ pbops' = pbops + 1
    /\ UNCHANGED <<allocs, pushes>>
    /\ UNCHANGED <<GroupVars, CatalogVars, NormVars, SourceVars, RunVars>>

PathNext == PbPush \/ PbPop

SpecPath == PathInit /\ [][PathNext]_vars

(***************************************************************************)
(* SpecPathDeep: one builder of max_depth 2 driven for longer with the two *)
(* names whose slugs are "foo" and "foo-1".                                *)
(***************************************************************************)
PathDeepInit ==
    /\ pb1 = UniquePathBuilder_new(MaxDepthKnob, 1)
    /\ pb2 = UniquePathBuilder_new(MaxDepthKnob, 2)
    /\ pbops = 0
    /\ allocs = <<>>
    /\ pushes = <<>>
    /\ GroupIdle
    /\ CatalogIdle
    /\ NormIdle
    /\ SourceIdle
    /\ RunIdle

PbPushDeep ==
    /\ pbops < MaxDeepOps
    /\ \E s \in DeepNames :
          /\ pb1' = push(pb1, s)
          /\ pb2' = push(pb2, s)
          /\ pushes' = log_push(pushes, pb1')
    /\ pbops' = pbops + 1
    /\ UNCHANGED <<allocs, GroupVars, CatalogVars, NormVars, SourceVars, RunVars>>

PbPopDeep ==
    /\ pbops < MaxDeepOps
    /\ pb1' = pop(pb1)
    /\ pb2' = pop(pb2)
    /\ pbops' = pbops + 1
    /\ UNCHANGED <<allocs, pushes>>
    /\ UNCHANGED <<GroupVars, CatalogVars, NormVars, SourceVars, RunVars>>

PathDeepNext == PbPushDeep \/ PbPopDeep

SpecPathDeep == PathDeepInit /\ [][PathDeepNext]_vars

(***************************************************************************)
(* Markdown events: lib.rs (pulldown_cmark::Event).  An event is a record  *)
(* [tag, text, line]: `text` is the payload (the text of Text, Html and    *)
(* InlineHtml, the info string of a fenced code block, empty otherwise).   *)
(***************************************************************************)
Ev(tag, text, line) == [tag |-> tag, text |-> text, line |-> line]

\* Event::Start(Tag::Paragraph | Tag::CodeBlock(..)): lib.rs 289
IsGroupStart(e) == e.tag \in {"StartParagraph", "StartCodeBlock"}

\* Event::End(TagEnd::Paragraph | TagEnd::CodeBlock): lib.rs 297
IsGroupEnd(e) == e.tag \in {"EndParagraph", "EndCodeBlock"}

\* The inline events of lib.rs 308-326.
IsInlineEvent(e) ==
    e.tag \in {"StartEmphasis", "EndEmphasis", "StartStrong", "EndStrong",
               "StartStrikethrough", "EndStrikethrough", "StartLink", "EndLink",
               "StartImage", "EndImage", "Text", "Code", "FootnoteReference",
               "SoftBreak", "HardBreak"}

IsHtmlEvent(e) == e.tag \in {"Html", "InlineHtml"}

(***************************************************************************)
(* directives::find: directives.rs 10-39.  An HTML comment is one token;   *)
(* the regular expression is not anchored, so the first directive comment  *)
(* anywhere in the HTML decides.                                           *)
(***************************************************************************)
SkipToken == "<!--i18n:skip-->"
CommentTokens == {"<!--i18n:comment:x-->", "<!--i18n:comment:y-->", "<!--i18n:comment-->"}
PlainCommentToken == "<!--x-->"
HtmlTokens == {SkipToken, PlainCommentToken} \cup CommentTokens

CommentText(tok) ==
    CASE tok = "<!--i18n:comment:x-->" -> "x"
      [] tok = "<!--i18n:comment:y-->" -> "y"
      [] OTHER -> ""

find(html) ==
    LET ds == SelectSeq(html, LAMBDA t : t = SkipToken \/ t \in CommentTokens) IN
    IF ds = <<>> THEN [d |-> "None", comment |-> ""]
    ELSE IF ds[1] = SkipToken THEN [d |-> "Skip", comment |-> ""]
    ELSE [d |-> "Comment", comment |-> CommentText(ds[1])]

(***************************************************************************)
(* pulldown_cmark_to_cmark as used by reconstruct_markdown: lib.rs 626-666.*)
(* The serializer state keeps the newlines owed before the next output and *)
(* whether a code block is open.                                           *)
(***************************************************************************)
\* The code fence; the serializer writes it with the same lexeme.
Fence == "~~~"

CmarkState(nl, code, lastnl) ==
    [newlines_before_start |-> nl, is_in_code_block |-> code, last_newline |-> lastnl]

DefaultState == CmarkState(0, FALSE, TRUE)

Newlines(n) == [i \in 1..n |-> "\n"]

Max(a, b) == IF a >= b THEN a ELSE b

\* CmarkEvent with an End(CodeBlock) that never writes the newline owed
\* after a last code line that has none.
CmarkEvent_fence_on_last_line(e, st) ==
    LET nl     == st.newlines_before_start
        flush  == Newlines(nl)
        ends   == e.text # <<>> /\ Last(e.text) = "\n"
        wrote(out) == <<flush \o out, [st EXCEPT !.newlines_before_start = 0]>>
        owe(n) == <<<<>>, [st EXCEPT !.newlines_before_start = Max(nl, n)]>>
    IN
    CASE e.tag = "StartParagraph"  -> wrote(<<>>)
      [] e.tag = "EndParagraph"    -> owe(2)
      [] e.tag = "StartHeading"    -> wrote(<<"#", " ">>)
      [] e.tag = "EndHeading"      -> owe(2)
      [] e.tag = "StartHtmlBlock"  -> wrote(<<>>)
      [] e.tag = "EndHtmlBlock"    -> <<<<>>, st>>
      [] e.tag = "StartCodeBlock"  ->
            <<flush \o (IF nl = 0 THEN <<"\n">> ELSE <<>>) \o <<Fence>> \o e.text \o <<"\n">>,
              CmarkState(0, TRUE, TRUE)>>
      [] e.tag = "EndCodeBlock"    ->
            <<<<Fence>>,
              CmarkState(Max(nl, 2), FALSE, TRUE)>>
      [] e.tag = "StartLink"       -> wrote(<<"[">>)
      [] e.tag = "EndLink"         -> <<<<"](u)">>, st>>
      [] e.tag \in {"StartEmphasis", "EndEmphasis"} -> wrote(<<"_">>)
      [] e.tag \in {"Text", "Html", "InlineHtml", "Code"} ->
            <<flush \o e.text,
              [st EXCEPT !.newlines_before_start = 0, !.last_newline = ends]>>
      [] OTHER -> <<<<>>, st>>

\* One event of cmark_resume_with_options: <<output, new state>>.
CmarkEvent(e, st) ==
    LET nl     == st.newlines_before_start
        flush  == Newlines(nl)
        ends   == e.text # <<>> /\ Last(e.text) = "\n"
        wrote(out) == <<flush \o out, [st EXCEPT !.newlines_before_start = 0]>>
        owe(n) == <<<<>>, [st EXCEPT !.newlines_before_start = Max(nl, n)]>>
    IN
    CASE e.tag = "StartParagraph"  -> wrote(<<>>)
      [] e.tag = "EndParagraph"    -> owe(2)
      [] e.tag = "StartHeading"    -> wrote(<<"#", " ">>)
      [] e.tag = "EndHeading"      -> owe(2)
      [] e.tag = "StartHtmlBlock"  -> wrote(<<>>)
      [] e.tag = "EndHtmlBlock"    -> <<<<>>, st>>
      [] e.tag = "StartCodeBlock"  ->
            <<flush \o (IF nl = 0 THEN <<"\n">> ELSE <<>>) \o <<Fence>> \o e.text \o <<"\n">>,
              CmarkState(0, TRUE, TRUE)>>
      [] e.tag = "EndCodeBlock"    ->
            <<(IF st.last_newline THEN <<>> ELSE <<"\n">>) \o <<Fence>>,
              CmarkState(Max(nl, 2), FALSE, TRUE)>>
      [] e.tag = "StartLink"       -> wrote(<<"[">>)
      [] e.tag = "EndLink"         -> <<<<"](u)">>, st>>
      [] e.tag \in {"StartEmphasis", "EndEmphasis"} -> wrote(<<"_">>)
      [] e.tag \in {"Text", "Html", "InlineHtml", "Code"} ->
            <<flush \o e.text,
              [st EXCEPT !.newlines_before_start = 0, !.last_newline = ends]>>
      [] OTHER -> <<<<>>, st>>

RECURSIVE cmark_resume(_, _, _)
\* cmark_resume_with_options over a slice: <<markdown, final state>>.
cmark_resume(events, out, st) ==
    IF events = <<>> THEN <<out, st>>
    ELSE LET r == CmarkEvent(Head(events), st)
         IN  cmark_resume(Tail(events), out \o r[1], r[2])

RECURSIVE trim_start_newlines(_)
trim_start_newlines(md) ==
    IF md # <<>> /\ Head(md) = "\n" THEN trim_start_newlines(Tail(md)) ELSE md

\* reconstruct_markdown(group, state): [md, state].
reconstruct_markdown(group, st) ==
    LET new_state  == cmark_resume(group, <<>>, st)[2]
        simplified == [st EXCEPT !.newlines_before_start = 0]
        markdown   == cmark_resume(group, <<>>, simplified)[1]
    IN  [md |-> trim_start_newlines(markdown), state |-> new_state]

\* str::trim(..).is_empty()
trim_is_empty(md) == \A i \in DOMAIN md : is_whitespace(md[i])

(***************************************************************************)
(* Groups: lib.rs 163-196.  A Skip group carries no comment; the record    *)
(* keeps the field empty so that all groups have the same shape.           *)
(***************************************************************************)
Translate(evs, comment) == [kind |-> "Translate", events |-> evs, comment |-> comment]
Skip(evs) == [kind |-> "Skip", events |-> evs, comment |-> ""]

GroupingContext_default == [skip_next_group |-> FALSE, comments |-> <<>>]

clear_skip_next_group(ctx) == [ctx EXCEPT !.skip_next_group = FALSE]

RECURSIVE join_comments(_)
\* comments.join(" ")
join_comments(cs) ==
    IF cs = <<>> THEN ""
    ELSE IF Len(cs) = 1 THEN cs[1]
    ELSE cs[1] \o " " \o join_comments(Tail(cs))

\* std::mem::take(&mut ctx.comments).join(" ") and the context left behind.
take_comments(ctx) == [ctx EXCEPT !.comments = <<>>]

is_codeblock_group(evs) ==
    /\ Len(evs) >= 2
    /\ evs[1].tag = "StartCodeBlock"
    /\ Last(evs).tag = "EndCodeBlock"

\* heuristic_codeblock: lib.rs 450-476.
heuristic_codeblock(evs, ctx) ==
    LET text == reconstruct_markdown(evs, DefaultState).md
        is_translate ==
            IF is_codeblock_group(evs)
            THEN \E i \in DOMAIN text : text[i] \in {"\"", "//"}
            ELSE TRUE
    IN  IF is_translate
        THEN [groups |-> <<Translate(evs, join_comments(ctx.comments))>>,
              ctx |-> take_comments(ctx)]
        ELSE [groups |-> <<Skip(evs)>>, ctx |-> ctx]

(***************************************************************************)
(* syntect as used by parse_codeblock: the scope ranges of one Text event. *)
(* A range ends where the scope stack changes: a double quote opens and    *)
(* closes a string scope and is a range of its own, "//" opens a comment   *)
(* scope that runs to the end of the line (newline included), and the code *)
(* between them is one range.  A range is [start, end) in 0-based offsets. *)
(***************************************************************************)
RECURSIVE TokenScopes(_, _, _)
\* The scope of each token of text[i..], read in mode "source", "string" or
\* "comment".
TokenScopes(text, i, mode) ==
    IF i > Len(text) THEN <<>>
    ELSE IF mode = "source" /\ text[i] = "\""
    THEN <<"string.begin">> \o TokenScopes(text, i + 1, "string")
    ELSE IF mode = "source" /\ text[i] = "//"
    THEN <<"comment.begin">> \o TokenScopes(text, i + 1, "comment")
    ELSE IF mode = "string" /\ text[i] = "\""
    THEN <<"string.end">> \o TokenScopes(text, i + 1, "source")
    ELSE IF mode = "comment" /\ text[i] = "\n"
    THEN <<"comment">> \o TokenScopes(text, i + 1, "source")
    ELSE <<mode>> \o TokenScopes(text, i + 1, mode)

\* is_translate_scope: strings and comments.
is_translate_scope(scope) == scope # "source"

RECURSIVE ScopeRangesFrom(_, _, _)
\* ScopeRangeIterator: the maximal runs of one scope from offset start on.
ScopeRangesFrom(scopes, start, i) ==
    IF start >= Len(scopes) THEN <<>>
    ELSE IF i < Len(scopes) /\ scopes[i + 1] = scopes[start + 1]
    THEN ScopeRangesFrom(scopes, start, i + 1)
    ELSE <<[start |-> start, end |-> i,
            translate |-> is_translate_scope(scopes[start + 1])]>>
            \o ScopeRangesFrom(scopes, i, i + 1)

ScopeRanges(text) == ScopeRangesFrom(TokenScopes(text, 1, "source"), 0, 1)

\* SyntaxSet::find_syntax_by_token on the first comma-separated token.
KnownSyntaxTokens == { <<"r", "s">> }

RECURSIVE first_comma_token(_)
first_comma_token(info) ==
    IF info = <<>> \/ Head(info) = "," THEN <<>>
    ELSE <<Head(info)>> \o first_comma_token(Tail(info))

find_syntax_by_token(info) == first_comma_token(info) \in KnownSyntaxTokens

\* What the tokenizer does with the Text events of one code block: it parses
\* them, parse_line fails, or ScopeStack::apply fails at range number `at`.
TokOk == [res |-> "ok", at |-> 0]
MaxStackFailAt == 1
TokOutcomes ==
    {TokOk, [res |-> "parse_line_err", at |-> 0]}
        \cup {[res |-> "stack_err", at |-> k] : k \in 0..MaxStackFailAt}

\* str::lines().count()
lines_count(text) ==
    Cardinality({i \in DOMAIN text : text[i] = "\n"})
        + (IF text # <<>> /\ Last(text) # "\n" THEN 1 ELSE 0)

is_blank_text(text) == \A i \in DOMAIN text : text[i] \in {" ", "\t"}

RECURSIVE extract_trailing_whitespaces(_)
\* lib.rs 593-607: [buf, ret], the buffer left and the whitespace events.
extract_trailing_whitespaces(buf) ==
    IF buf # <<>> /\ Last(buf).tag = "Text" /\ is_blank_text(Last(buf).text)
    THEN LET r == extract_trailing_whitespaces(Front(buf))
         IN  [buf |-> r.buf, ret |-> Append(r.ret, Last(buf))]
    ELSE [buf |-> buf, ret |-> <<>>]

\* The groups pushed so far together with the context: the pair every
\* step of parse_codeblock and into_groups hands on.
Acc(gs, ctx) == [groups |-> gs, ctx |-> ctx]

\* groups.push(Group::Translate { events, comment: take(ctx.comments).join(" ") })
push_translate(acc, evs) ==
    Acc(Append(acc.groups, Translate(evs, join_comments(acc.ctx.comments))),
        take_comments(acc.ctx))

\* groups.push(Group::Skip(events))
push_skip(acc, evs) == Acc(Append(acc.groups, Skip(evs)), acc.ctx)

flush_whitespaces(ws, acc) ==
    IF ws # <<>> THEN push_skip(acc, ws) ELSE acc

flush_buffer(ws, acc) ==
    flush_whitespaces(ws.ret, IF ws.buf # <<>> THEN push_translate(acc, ws.buf) ELSE acc)

\* lib.rs 549-558 and 563-572: close the run of translatable ranges.
flush_translate_events(tbuf, acc) ==
    flush_buffer(extract_trailing_whitespaces(tbuf), acc)

\* lib.rs 530-534.
range_line_of(e, start) ==
    IF start = 0 THEN e.line
    ELSE e.line + lines_count(SubSeq(e.text, 1, start)) - 1

\* The sub-event made of range r of Text event e (lib.rs 536, 548, 559).
range_event(e, r) ==
    Ev("Text", SubSeq(e.text, r.start + 1, r.end), range_line_of(e, r.start))

with_stack_failure(acc, b) ==
    [groups |-> acc.groups, ctx |-> acc.ctx, stack_failure |-> b]

RECURSIVE scan_ranges(_, _, _, _, _, _)
\* lib.rs 519-572: the loop over the scope ranges of Text event e and the
\* flush after it.
scan_ranges(e, ranges, k, tok, tbuf, acc) ==
    IF k > Len(ranges)
    THEN with_stack_failure(flush_translate_events(tbuf, acc), FALSE)
    ELSE IF tok.res = "stack_err" /\ tok.at = k - 1
    THEN with_stack_failure(flush_translate_events(tbuf, acc), TRUE)
    ELSE IF ranges[k].start = ranges[k].end
    THEN scan_ranges(e, ranges, k + 1, tok, tbuf, acc)
    ELSE IF \/ ranges[k].translate
            \/ (is_blank_text(SubSeq(e.text, ranges[k].start + 1, ranges[k].end))
                    /\ tbuf # <<>>)
    THEN scan_ranges(e, ranges, k + 1, tok, Append(tbuf, range_event(e, ranges[k])), acc)
    ELSE scan_ranges(e, ranges, k + 1, tok, <<>>,
                     push_skip(flush_translate_events(tbuf, acc),
                               <<range_event(e, ranges[k])>>))

\* lib.rs 574-583: what the Text event e adds to ret.
finish_text(e, ret, s) ==
    IF s.stack_failure
    THEN push_translate(Acc(ret, s.ctx), <<e>>)
    ELSE Acc(ret \o s.groups, s.ctx)

\* lib.rs 503-583: one Text event of a code block with a known syntax.
parse_codeblock_text(e, acc, tok) ==
    IF tok.res = "parse_line_err"
    THEN push_translate(acc, <<e>>)
    ELSE finish_text(e, acc.groups,
                     scan_ranges(e, ScopeRanges(e.text), 1, tok, <<>>, Acc(<<>>, acc.ctx)))

RECURSIVE parse_codeblock_loop(_, _, _)
\* lib.rs 501-588: the loop over the events of the code block.
parse_codeblock_loop(evs, acc, tok) ==
    IF evs = <<>> THEN acc
    ELSE IF Head(evs).tag = "Text"
    THEN parse_codeblock_loop(Tail(evs), parse_codeblock_text(Head(evs), acc, tok), tok)
    ELSE parse_codeblock_loop(Tail(evs), push_skip(acc, <<Head(evs)>>), tok)

\* parse_codeblock: lib.rs 479-590.
parse_codeblock(evs, ctx, tok) ==
    IF ~find_syntax_by_token(evs[1].text)
    THEN heuristic_codeblock(evs, ctx)
    ELSE parse_codeblock_loop(evs, Acc(<<>>, ctx), tok)

(***************************************************************************)
(* group_events: lib.rs 241-425.                                           *)
(***************************************************************************)
StateTranslate(start) == [kind |-> "Translate", start |-> start]
StateSkip(start) == [kind |-> "Skip", start |-> start]

with_via(acc, via) == [groups |-> acc.groups, ctx |-> acc.ctx, via |-> via]

\* The arms of State::into_groups on the events of the group.
into_groups_of(state, evs, ctx, tok) ==
    IF state.kind = "Translate"
    THEN IF ctx.skip_next_group
         THEN with_via(Acc(<<Skip(evs)>>, clear_skip_next_group(ctx)), "skip_next")
         ELSE IF is_codeblock_group(evs)
         THEN with_via(parse_codeblock(evs, ctx, tok), "codeblock")
         ELSE with_via(push_translate(Acc(<<>>, ctx), evs), "translate")
    ELSE with_via(Acc(<<Skip(evs)>>, ctx), "skip_state")

\* State::into_groups: lib.rs 250-277.  `via` names the branch taken.
into_groups(state, idx, events, ctx, tok) ==
    into_groups_of(state, SubSeq(events, state.start + 1, idx), ctx, tok)

\* directives::find on the text of an Html or InlineHtml event.
directive_of(e) ==
    IF IsHtmlEvent(e) THEN find(e.text) ELSE [d |-> "None", comment |-> ""]

Flush(at, next) == [flush |-> TRUE, at |-> at, next |-> next]
NoFlush == [flush |-> FALSE, at |-> 0, next |-> StateSkip(0)]

\* The arm of the match of lib.rs 285-413 taken for events[idx]: whether
\* into_groups is called, up to which index, and the state that follows.
group_arm(e, idx, state) ==
    IF IsGroupStart(e) THEN Flush(idx, StateTranslate(idx))
    ELSE IF IsGroupEnd(e) THEN Flush(idx + 1, StateSkip(idx + 1))
    ELSE IF IsInlineEvent(e)
    THEN IF state.kind = "Skip" THEN Flush(idx, StateTranslate(idx)) ELSE NoFlush
    ELSE IF IsHtmlEvent(e)
    THEN IF directive_of(e).d \in {"Skip", "Comment"}
         THEN IF state.kind = "Translate"
              THEN Flush(idx, StateTranslate(idx)) ELSE NoFlush
         ELSE IF e.tag = "Html"
         THEN IF state.kind = "Translate" THEN Flush(idx, StateSkip(idx)) ELSE NoFlush
         ELSE IF state.kind = "Skip" THEN Flush(idx, StateTranslate(idx)) ELSE NoFlush
    ELSE IF state.kind = "Translate" THEN Flush(idx, StateSkip(idx)) ELSE NoFlush

with_state(r, next) ==
    [groups |-> r.groups, state |-> next, ctx |-> r.ctx, via |-> r.via]

group_flush(arm, events, state, ctx, tok) ==
    IF arm.flush
    THEN with_state(into_groups(state, arm.at, events, ctx, tok), arm.next)
    ELSE [groups |-> <<>>, state |-> state, ctx |-> ctx, via |-> "none"]

\* lib.rs 360 and 374: the directive's effect on the context.
group_directive(r, d) ==
    IF d.d = "Skip" THEN [r EXCEPT !.ctx.skip_next_group = TRUE]
    ELSE IF d.d = "Comment" THEN [r EXCEPT !.ctx.comments = Append(@, d.comment)]
    ELSE r

\* The loop body of group_events for events[idx] (0-based idx):
\* [groups emitted, state, ctx, via].
group_event(events, idx, state, ctx, tok) ==
    group_directive(
        group_flush(group_arm(events[idx + 1], idx, state), events, state, ctx, tok),
        directive_of(events[idx + 1]))

\* lib.rs 416-422: the tail of the input.
group_events_tail(events, state) ==
    LET evs == SubSeq(events, state.start + 1, Len(events)) IN
    IF state.kind = "Translate" THEN Translate(evs, "") ELSE Skip(evs)

(***************************************************************************)
(* pulldown_cmark as used by extract_events (lib.rs 56-67, 142-143), for   *)
(* the fragment of Markdown made of paragraphs, ATX headings, fenced code  *)
(* blocks, HTML comments and inline links.  The parser yields events with  *)
(* the 0-based offset at which their source range starts; an End event     *)
(* carries the range of its Start.                                         *)
(***************************************************************************)
PEv(tag, text, start) == [tag |-> tag, text |-> text, start |-> start]

RECURSIVE SplitLinesFrom(_, _, _, _)
\* The lines of text: [start, toks, nl] (offset, tokens, ends with newline).
SplitLinesFrom(text, i, start, cur) ==
    IF i > Len(text)
    THEN (IF cur = <<>> THEN <<>> ELSE <<[start |-> start, toks |-> cur, nl |-> FALSE]>>)
    ELSE IF text[i] = "\n"
    THEN <<[start |-> start, toks |-> cur, nl |-> TRUE]>>
             \o SplitLinesFrom(text, i + 1, i, <<>>)
    ELSE SplitLinesFrom(text, i + 1, start, Append(cur, text[i]))

SplitLines(text) == SplitLinesFrom(text, 1, 0, <<>>)

RECURSIVE LeadingSpaces(_)
LeadingSpaces(toks) ==
    IF toks # <<>> /\ Head(toks) = " " THEN 1 + LeadingSpaces(Tail(toks)) ELSE 0

RECURSIVE StripTrailingSpaces(_)
StripTrailingSpaces(toks) ==
    IF toks # <<>> /\ Last(toks) = " " THEN StripTrailingSpaces(Front(toks)) ELSE toks

LinkOpen == "["
LinkClose == "](u)"

\* The position of the first LinkClose after position i, or 0.
NextLinkClose(toks, i) ==
    LET later == {j \in DOMAIN toks : j > i /\ toks[j] = LinkClose} IN
    IF later = {} THEN 0 ELSE CHOOSE j \in later : \A k \in later : j <= k

RECURSIVE InlineFrom(_, _, _, _, _, _)
\* The inline events of toks[i..]; off is the offset of toks[1], run the text
\* being read and runstart its offset; links is FALSE inside a link.
InlineFrom(toks, i, off, run, runstart, links) ==
    LET flush == IF run = <<>> THEN <<>> ELSE <<PEv("Text", run, runstart)>> IN
    IF i > Len(toks) THEN flush
    ELSE LET t == toks[i]
             pos == off + i - 1
             close == NextLinkClose(toks, i)
         IN
         IF t \in HtmlTokens
         THEN flush \o <<PEv("InlineHtml", <<t>>, pos)>>
                    \o InlineFrom(toks, i + 1, off, <<>>, 0, links)
         ELSE IF t = LinkOpen /\ links /\ close # 0
         THEN flush \o <<PEv("StartLink", <<>>, pos)>>
                    \o InlineFrom(SubSeq(toks, i + 1, close - 1), 1, pos + 1, <<>>, 0, FALSE)
                    \o <<PEv("EndLink", <<>>, pos)>>
                    \o InlineFrom(toks, close + 1, off, <<>>, 0, links)
         ELSE InlineFrom(toks, i + 1, off,
                         Append(run, t), IF run = <<>> THEN pos ELSE runstart, links)

Inline(toks, off) == InlineFrom(toks, 1, off, <<>>, 0, TRUE)

RECURSIVE ParseLines(_, _, _, _, _)
\* mode is "top", "para" or "code"; open is the offset at which the open
\* paragraph or code block starts; code is the code text read so far.
ParseLines(lines, i, mode, open, code) ==
    LET close_para == IF mode = "para" THEN <<PEv("EndParagraph", <<>>, open)>> ELSE <<>>
        close_code == (IF code.text = <<>> THEN <<>>
                       ELSE <<PEv("Text", code.text, code.start)>>)
                          \o <<PEv("EndCodeBlock", <<>>, open)>>
        no_code == [text |-> <<>>, start |-> 0]
    IN
    IF i > Len(lines)
    THEN (IF mode = "code" THEN close_code ELSE close_para)
    ELSE
    LET line == lines[i]
        lead == LeadingSpaces(line.toks)
        body == StripTrailingSpaces(SubSeq(line.toks, lead + 1, Len(line.toks)))
        at   == line.start + lead
        raw  == line.toks \o (IF line.nl THEN <<"\n">> ELSE <<>>)
    IN
    IF mode = "code"
    THEN IF body = <<Fence>>
         THEN close_code \o ParseLines(lines, i + 1, "top", 0, no_code)
         ELSE ParseLines(lines, i + 1, "code", open,
                         [text |-> code.text \o raw,
                          start |-> IF code.text = <<>> THEN line.start ELSE code.start])
    ELSE IF body = <<>>
    THEN close_para \o ParseLines(lines, i + 1, "top", 0, no_code)
    ELSE IF Head(body) = Fence
    THEN close_para \o <<PEv("StartCodeBlock", Tail(body), at)>>
                    \o ParseLines(lines, i + 1, "code", at, no_code)
    ELSE IF Head(body) = "#" /\ (Len(body) = 1 \/ body[2] = " ")
    THEN LET rest == SubSeq(body, 2, Len(body))
             skip == LeadingSpaces(rest)
         IN  close_para \o <<PEv("StartHeading", <<>>, at)>>
                 \o Inline(SubSeq(rest, skip + 1, Len(rest)), at + 1 + skip)
                 \o <<PEv("EndHeading", <<>>, at)>>
                 \o ParseLines(lines, i + 1, "top", 0, no_code)
    ELSE IF Head(body) \in HtmlTokens
    THEN close_para \o <<PEv("StartHtmlBlock", <<>>, at),
                         PEv("Html", SubSeq(raw, lead + 1, Len(raw)), at),
                         PEv("EndHtmlBlock", <<>>, at)>>
                    \o ParseLines(lines, i + 1, "top", 0, no_code)
    ELSE IF mode = "para"
    THEN <<PEv("SoftBreak", <<>>, line.start - 1)>> \o Inline(body, at)
             \o ParseLines(lines, i + 1, "para", open, no_code)
    ELSE <<PEv("StartParagraph", <<>>, at)>> \o Inline(body, at)
             \o ParseLines(lines, i + 1, "para", at, no_code)

\* Parser::into_offset_iter
into_offset_iter(text) ==
    ParseLines(SplitLines(text), 1, "top", 0, [text |-> <<>>, start |-> 0])

RECURSIVE split_inclusive(_, _)
\* str::split_inclusive('\n')
split_inclusive(text, cur) ==
    IF text = <<>> THEN (IF cur = <<>> THEN <<>> ELSE <<cur>>)
    ELSE IF Head(text) = "\n"
    THEN <<Append(cur, "\n")>> \o split_inclusive(Tail(text), <<>>)
    ELSE split_inclusive(Tail(text), Append(cur, Head(text)))

\* The line of a byte offset, counted from 0 instead of 1.
lineno_of_zero_based(text, start) ==
    Cardinality({i \in DOMAIN text : text[i] = "\n" /\ i - 1 < start})

\* lib.rs 127-130 and 145: the line of a byte offset.
lineno_of(text, start) ==
    Cardinality({i \in DOMAIN text : text[i] = "\n" /\ i - 1 < start}) + 1

\* extract_events: lib.rs 95-161.
extract_events(text, st) ==
    IF st.is_in_code_block
    THEN LET ls == split_inclusive(text, <<>>)
         IN  [i \in DOMAIN ls |-> Ev("Text", ls[i], i)]
    ELSE LET ps == into_offset_iter(text)
         IN  [i \in DOMAIN ps |->
                 IF ps[i].tag = "SoftBreak"
                 THEN Ev("Text", <<" ">>, lineno_of(text, ps[i].start))
                 ELSE Ev(ps[i].tag, ps[i].text, lineno_of(text, ps[i].start))]

(***************************************************************************)
(* polib catalogs: an ordered list of messages, msgid being the key.       *)
(***************************************************************************)
Message(msgid, msgstr, fuzzy, source, comment) ==
    [msgid |-> msgid, msgstr |-> msgstr, fuzzy |-> fuzzy,
     source |-> source, comment |-> comment]

\* Catalog::find_message(None, msgid, None): the index of the entry, or 0.
find_message(catalog, msgid) ==
    IF \E i \in DOMAIN catalog : catalog[i].msgid = msgid
    THEN CHOOSE i \in DOMAIN catalog : catalog[i].msgid = msgid
    ELSE 0

\* MessageView::is_translated of a singular message.
is_translated(m) == m.msgstr # <<>>

(***************************************************************************)
(* trim_paragraph and translate_events: lib.rs 791-848.                    *)
(***************************************************************************)
IsParagraphWrapped(evs) ==
    /\ Len(evs) >= 2
    /\ evs[1].tag = "StartParagraph"
    /\ Last(evs).tag = "EndParagraph"

trim_paragraph(new_events, old_events) ==
    IF IsParagraphWrapped(new_events) /\ ~IsParagraphWrapped(old_events)
    THEN SubSeq(new_events, 2, Len(new_events) - 1)
    ELSE new_events

\* lib.rs 819-822: the msgstr to use for msgid, or "none".
UsableIgnoringFuzzy(catalog, msgid) ==
    LET i == find_message(catalog, msgid) IN
    i # 0 /\ is_translated(catalog[i])

Usable(catalog, msgid) ==
    LET i == find_message(catalog, msgid) IN
    i # 0 /\ ~catalog[i].fuzzy /\ is_translated(catalog[i])

\* The loop body without the branch that copies the events of a group that
\* has no translation.
translate_group_without_copy(g, st, catalog) ==
    LET r == reconstruct_markdown(g.events, st) IN
    IF g.kind = "Translate" /\ Usable(catalog, r.md)
    THEN [events |-> trim_paragraph(
                        extract_events(catalog[find_message(catalog, r.md)].msgstr, st),
                        g.events),
          state |-> r.state]
    ELSE [events |-> IF g.kind = "Translate" THEN <<>> ELSE g.events, state |-> r.state]

\* The body of the loop of translate_events for one group: [events, state].
translate_group(g, st, catalog) ==
    LET r == reconstruct_markdown(g.events, st) IN
    IF g.kind = "Translate" /\ Usable(catalog, r.md)
    THEN [events |-> trim_paragraph(
                        extract_events(catalog[find_message(catalog, r.md)].msgstr, st),
                        g.events),
          state |-> r.state]
    ELSE [events |-> g.events, state |-> r.state]

RECURSIVE translate_loop(_, _, _)
\* The segments written for the groups gs, in order.
translate_loop(gs, st, catalog) ==
    IF gs = <<>> THEN <<>>
    ELSE LET r == translate_group(Head(gs), st, catalog)
         IN  <<r.events>> \o translate_loop(Tail(gs), r.state, catalog)

(***************************************************************************)
(* SpecGroup: translate_events(events, catalog) for every event stream of  *)
(* at most MaxEvents events: group_events reads the stream event by event, *)
(* then the loop over the groups runs.                                     *)
(***************************************************************************)
MaxEvents == 3

CodeLine == <<"x", "\"", "s", "\"", " ", "//", "c", "\n">>
SpillLine == <<"\"", "s", "\"", " ", "x", "\n">>

\* The events fed to group_events: <<tag, text>>.
GroupAlphabet ==
    { <<"StartParagraph", <<>>>>, <<"EndParagraph", <<>>>>,
      <<"StartCodeBlock", <<"r", "s">>>>, <<"StartCodeBlock", <<>>>>,
      <<"EndCodeBlock", <<>>>>,
      <<"Text", <<"a">>>>, <<"Text", CodeLine>>, <<"Text", SpillLine>>,
      <<"Text", <<"x", "\n">>>>,
      <<"Html", <<SkipToken, "\n">>>>, <<"InlineHtml", <<SkipToken>>>>,
      <<"Html", <<"<!--i18n:comment:x-->", "\n">>>>,
      <<"InlineHtml", <<"<!--i18n:comment:y-->">>>>,
      <<"Html", <<PlainCommentToken, "\n">>>>, <<"InlineHtml", <<PlainCommentToken>>>>,
      <<"StartHeading", <<>>>> }

\* The catalogs handed to translate_events.
TranslateCatalogs ==
    { <<>>,
      <<Message(<<"a">>, <<"b">>, FALSE, <<>>, "")>>,
      <<Message(<<"a">>, <<"b">>, TRUE, <<>>, "")>>,
      <<Message(<<"a">>, <<>>, FALSE, <<>>, "")>>,
      <<Message(<<"a">>, <<"b", "\n", "\n", "a">>, FALSE, <<>>, "")>> }

\* The Markdown documents read by extract_events: at most MaxDocLines of
\* the lines below, each ended by a newline.
MaxDocLines == 3

DocLines ==
    { <<"a">>, <<>>, <<Fence, "r", "s">>, <<Fence>>,
      <<"x", "\"", "s", "\"", " ", "//", "c">>, <<"//", "c">>,
      <<SkipToken>>, <<"a", SkipToken, "a">>, <<"<!--i18n:comment:x-->">>,
      <<"a", SkipToken, "<!--i18n:comment:y-->", "a">>,
      <<LinkOpen, "a", LinkClose>>, <<"#", " ", "a">> }

RECURSIVE JoinLines(_)
JoinLines(ls) == IF ls = <<>> THEN <<>> ELSE Head(ls) \o <<"\n">> \o JoinLines(Tail(ls))

DocLineLists == UNION { [1..n -> DocLines] : n \in 0..MaxDocLines }

\* The last line with and without its newline.
Docs ==
    { JoinLines(ls) : ls \in DocLineLists }
        \cup { Front(JoinLines(ls)) : ls \in DocLineLists \ {<<>>} }

NoDoc == [some |-> FALSE, text |-> <<>>]
SomeDoc(text) == [some |-> TRUE, text |-> text]

GroupInit ==
    /\ gev = <<>>
    /\ gst = StateSkip(0)
    /\ gctx = GroupingContext_default
    /\ ggroups = <<>>
    /\ emits = <<>>
    /\ gphase = "grouping"
    /\ tcat = <<>>
    /\ tsegs = <<>>
    /\ gdoc = NoDoc
    /\ PathIdle
    /\ CatalogIdle
    /\ NormIdle
    /\ SourceIdle
    /\ RunIdle

\* The variables of the loop of group_events as one record.
LoopAcc(gs, state, ctx, log) == [groups |-> gs, state |-> state, ctx |-> ctx, emits |-> log]

\* The log of the calls of into_groups made in State::Translate: the index
\* of the event that made the call, the branch taken and the groups returned.
log_emit(log, idx, via, groups) ==
    IF via \in {"skip_next", "codeblock", "translate"}
    THEN Append(log, [at |-> idx, via |-> via, groups |-> groups])
    ELSE log

\* groups.append(&mut next_groups) and the new state and context.
loop_step(acc, idx, r) ==
    LoopAcc(acc.groups \o r.groups, r.state, r.ctx, log_emit(acc.emits, idx, r.via, r.groups))

RECURSIVE group_events_loop(_, _, _, _)
\* The loop of group_events from events[idx] on (lib.rs 284-414).
group_events_loop(events, idx, acc, tok) ==
    IF idx >= Len(events) THEN acc
    ELSE group_events_loop(events, idx + 1,
            loop_step(acc, idx, group_event(events, idx, acc.state, acc.ctx, tok)), tok)

GroupSet(evs, acc) ==
    /\ gev' = evs
    /\ gst' = acc.state
    /\ gctx' = acc.ctx
    /\ ggroups' = acc.groups
    /\ emits' = acc.emits

\* One iteration of the loop of group_events (lib.rs 284-414) on an event
\* handed in by the caller.
GroupStep ==
    /\ gphase = "grouping"
    /\ ~gdoc.some
    /\ Len(gev) < MaxEvents
    /\ \E a \in GroupAlphabet :
       \E tok \in IF a[1] = "EndCodeBlock" THEN TokOutcomes ELSE {TokOk} :
          GroupSet(Append(gev, Ev(a[1], a[2], Len(gev) + 1)),
                   group_events_loop(Append(gev, Ev(a[1], a[2], Len(gev) + 1)), Len(gev),
                                     LoopAcc(ggroups, gst, gctx, emits), tok))
    /\ UNCHANGED <<gphase, tcat, tsegs, gdoc>>
    /\ UNCHANGED <<PathVars, CatalogVars, NormVars, SourceVars, RunVars>>

\* extract_events(text, None) followed by the loop of group_events, as
\* extract_messages (lib.rs 733-734) and translate (gettext.rs 44-45) run them.
GroupDoc ==
    /\ gphase = "grouping"
    /\ ~gdoc.some
    /\ gev = <<>>
    /\ \E text \in Docs : \E tok \in TokOutcomes :
          /\ gdoc' = SomeDoc(text)
          /\ GroupSet(extract_events(text, DefaultState),
                      group_events_loop(extract_events(text, DefaultState), 0,
                                        LoopAcc(<<>>, StateSkip(0), GroupingContext_default, <<>>),
                                        tok))
    /\ UNCHANGED <<gphase, tcat, tsegs>>
    /\ UNCHANGED <<PathVars, CatalogVars, NormVars, SourceVars, RunVars>>

\* The end of the input (lib.rs 416-424).
GroupEnd ==
    /\ gphase = "grouping"
    /\ ggroups' = Append(ggroups, group_events_tail(gev, gst))
    /\ emits' = IF gst.kind = "Translate"
                THEN Append(emits, [at |-> Len(gev), via |-> "tail",
                                    groups |-> <<group_events_tail(gev, gst)>>])
                ELSE emits
    /\ gphase' = "grouped"
    /\ UNCHANGED <<gev, gst, gctx, tcat, tsegs, gdoc>>
    /\ UNCHANGED <<PathVars, CatalogVars, NormVars, SourceVars, RunVars>>

\* The loop of translate_events over the groups (lib.rs 811-847).
TranslateEvents ==
    /\ gphase = "grouped"
    /\ \E c \in TranslateCatalogs :
          /\ tcat' = c
          /\ tsegs' = translate_loop(ggroups, DefaultState, c)
    /\ gphase' = "translated"
    /\ UNCHANGED <<gev, gst, gctx, ggroups, emits, gdoc>>
    /\ UNCHANGED <<PathVars, CatalogVars, NormVars, SourceVars, RunVars>>

GroupNext == GroupStep \/ GroupDoc \/ GroupEnd \/ TranslateEvents

SpecGroup == GroupInit /\ [][GroupNext]_vars

(***************************************************************************)
(* SpecGroupDeep: group_events on longer event streams over the events     *)
(* that matter to directives: comment and skip directives, text, the end   *)
(* of a paragraph and a code block without a language.                     *)
(***************************************************************************)
MaxDeepEvents == 6

DeepAlphabet ==
    { <<"EndParagraph", <<>>>>,
      <<"StartCodeBlock", <<>>>>, <<"EndCodeBlock", <<>>>>,
      <<"Text", <<"a">>>>, <<"Text", <<"x", "\n">>>>,
      <<"Html", <<SkipToken, "\n">>>>,
      <<"Html", <<"<!--i18n:comment:x-->", "\n">>>> }

GroupStepDeep ==
    /\ gphase = "grouping"
    /\ Len(gev) < MaxDeepEvents
    /\ \E a \in DeepAlphabet :
          GroupSet(Append(gev, Ev(a[1], a[2], Len(gev) + 1)),
                   group_events_loop(Append(gev, Ev(a[1], a[2], Len(gev) + 1)), Len(gev),
                                     LoopAcc(ggroups, gst, gctx, emits), TokOk))
    /\ UNCHANGED <<gphase, tcat, tsegs, gdoc>>
    /\ UNCHANGED <<PathVars, CatalogVars, NormVars, SourceVars, RunVars>>

GroupDeepNext == GroupStepDeep \/ GroupEnd

SpecGroupDeep == GroupInit /\ [][GroupDeepNext]_vars

(***************************************************************************)
(* group_events and extract_messages as functions: lib.rs 241-425 and      *)
(* 729-761.                                                                *)
(***************************************************************************)
with_tail(acc, events) == Append(acc.groups, group_events_tail(events, acc.state))

group_events(events, tok) ==
    with_tail(group_events_loop(events, 0,
                  LoopAcc(<<>>, StateSkip(0), GroupingContext_default, <<>>), tok),
              events)

ExtractedMessage(lineno, message, comment) ==
    [lineno |-> lineno, message |-> message, comment |-> comment]

\* lib.rs 738-752: the message of a Translate group, if it is not blank.
message_of(g, text) ==
    IF trim_is_empty(text) THEN <<>>
    ELSE <<ExtractedMessage(g.events[1].line, text, g.comment)>>

RECURSIVE messages_loop(_, _)
\* The loop of extract_messages over the groups (lib.rs 735-758).
messages_loop(gs, st) ==
    IF gs = <<>> THEN <<>>
    ELSE IF Head(gs).events = <<>> /\ Head(gs).kind = "Translate"
    THEN messages_loop(Tail(gs), st)
    ELSE (IF Head(gs).kind = "Translate"
          THEN message_of(Head(gs), reconstruct_markdown(Head(gs).events, st).md)
          ELSE <<>>)
            \o messages_loop(Tail(gs), reconstruct_markdown(Head(gs).events, st).state)

extract_messages(document) ==
    messages_loop(group_events(extract_events(document, DefaultState), TokOk), DefaultState)

(***************************************************************************)
(* The source field of a message: file:lineno references separated by      *)
(* newlines or spaces.                                                     *)
(***************************************************************************)
Ref(path, has_line, line) == [kind |-> "ref", path |-> path, has_line |-> has_line, line |-> line]
NL == [kind |-> "nl", path |-> "", has_line |-> FALSE, line |-> 0]
SP == [kind |-> "sp", path |-> "", has_line |-> FALSE, line |-> 0]

\* str::split_whitespace on a source field.
source_words(source) == SelectSeq(source, LAMBDA t : t.kind = "ref")

RECURSIVE source_lines(_, _)
\* str::lines on a source field.
source_lines(source, cur) ==
    IF source = <<>> THEN (IF cur = <<>> THEN <<>> ELSE <<cur>>)
    ELSE IF Head(source).kind = "nl" THEN <<cur>> \o source_lines(Tail(source), <<>>)
    ELSE source_lines(Tail(source), Append(cur, Head(source)))

RECURSIVE join_source_lines(_)
\* lines.join("\n")
join_source_lines(ls) ==
    IF ls = <<>> THEN <<>>
    ELSE IF Len(ls) = 1 THEN ls[1]
    ELSE ls[1] \o <<NL>> \o join_source_lines(Tail(ls))

RECURSIVE dedup(_)
\* Vec::dedup: consecutive equal elements collapse into one.
dedup(ls) ==
    IF Len(ls) < 2 THEN ls
    ELSE IF ls[1] = ls[2] THEN dedup(Tail(ls))
    ELSE <<ls[1]>> \o dedup(Tail(ls))

\* The number of columns a reference takes.
display_width(t) ==
    Len(t.path) + (IF t.has_line THEN 1 + Len(Decimal(t.line)) ELSE 0)

WrapWidth == 76

RECURSIVE fill(_, _)
\* textwrap::fill of the words at WrapWidth columns, words never broken:
\* col is the width of the line being filled (0 at the start of the text).
fill(words, col) ==
    IF words = <<>> THEN <<>>
    ELSE IF col = 0
    THEN <<Head(words)>> \o fill(Tail(words), display_width(Head(words)))
    ELSE IF col + 1 + display_width(Head(words)) <= WrapWidth
    THEN <<SP, Head(words)>> \o fill(Tail(words), col + 1 + display_width(Head(words)))
    ELSE <<NL, Head(words)>> \o fill(Tail(words), display_width(Head(words)))

\* wrap_sources (lib.rs 47-52): textwrap::refill joins the lines and fills
\* them again.
wrap_sources(sources) == fill(source_words(sources), 0)

(***************************************************************************)
(* mdbook-xgettext: xgettext.rs 34-94.                                     *)
(***************************************************************************)
IsLinkEvent(e) == e.tag \in {"StartLink", "EndLink"}

\* xgettext.rs 36-42: the events that are no link events, at line 0.
without_links(events) ==
    [i \in DOMAIN SelectSeq(events, LAMBDA e : ~IsLinkEvent(e)) |->
        [SelectSeq(events, LAMBDA e : ~IsLinkEvent(e))[i] EXCEPT !.line = 0]]

\* strip_link: xgettext.rs 34-46.
strip_link(text) ==
    reconstruct_markdown(without_links(extract_events(text, DefaultState)), DefaultState).md

\* Catalog::append_or_update: a message with the same msgid is replaced in
\* place, a new one is appended.
append_or_update(catalog, m) ==
    IF find_message(catalog, m.msgid) # 0
    THEN [catalog EXCEPT ![find_message(catalog, m.msgid)] = m]
    ELSE Append(catalog, m)

\* add_message with Catalog::append in place of append_or_update.
add_message_appending(catalog, msgid, source, comment) ==
    Append(catalog,
        Message(msgid, <<>>, FALSE,
                IF find_message(catalog, msgid) # 0
                THEN catalog[find_message(catalog, msgid)].source \o <<NL, source>>
                ELSE <<source>>,
                comment))

\* add_message: xgettext.rs 48-59.
add_message(catalog, msgid, source, comment) ==
    append_or_update(catalog,
        Message(msgid, <<>>, FALSE,
                IF find_message(catalog, msgid) # 0
                THEN catalog[find_message(catalog, msgid)].source \o <<NL, source>>
                ELSE <<source>>,
                comment))

build_source_without_floor(path, lineno, granularity) ==
    IF granularity = 0 THEN Ref(path, FALSE, 0)
    ELSE IF granularity = 1 THEN Ref(path, TRUE, lineno)
    ELSE Ref(path, TRUE, lineno - (lineno % granularity))

\* build_source: xgettext.rs 73-84.
build_source(path, lineno, granularity) ==
    IF granularity = 0 THEN Ref(path, FALSE, 0)
    ELSE IF granularity = 1 THEN Ref(path, TRUE, lineno)
    ELSE Ref(path, TRUE, Max(1, lineno - (lineno % granularity)))

\* The body of the loop of dedup_sources: xgettext.rs 88-92.
dedup_source(source) ==
    wrap_sources(join_source_lines(dedup(source_lines(source, <<>>))))

\* dedup_sources: xgettext.rs 86-94.
dedup_sources(catalog) ==
    [i \in DOMAIN catalog |-> [catalog[i] EXCEPT !.source = dedup_source(@)]]

(***************************************************************************)
(* SpecCatalog: create_catalogs (xgettext.rs 117-249) on a book chosen     *)
(* step by step: the metadata, SUMMARY.md, then the part titles and the    *)
(* chapters in section order.  get_subcontent_for_chapter (265-293) is     *)
(* walked as enter/leave steps; the messages of a chapter go to the        *)
(* destination computed when the chapter is entered, in walk order, which  *)
(* is the order in which the code adds them.                               *)
(***************************************************************************)
MaxBookItems == 3

None == [some |-> FALSE, text |-> <<>>]
Some(text) == [some |-> TRUE, text |-> text]

BookTitles == { None, Some(<<" ">>), Some(<<"a">>) }
BookDescriptions == { None, Some(<<"a">>) }
SummaryTexts ==
    { <<LinkOpen, "a", LinkClose, "\n">>,
      <<LinkOpen, LinkClose, "\n">>,
      <<"b", "\n", "\n", LinkOpen, "a", LinkClose, "\n">> }
ChapterNames == { <<"F", "o", "o">>, <<"f", "o", "o", " ", "1">> }
ChapterPaths == { "a.md", "b.md" }
ChapterContents == { <<"a", "\n">>, <<"a", "\n", "\n", "b", "\n", "\n", "a", "\n">> }
Granularities == { 0, 1 }

\* One pending call add_message(catalogs[dest], msgid, source, comment);
\* dest = <<>> names the summary catalog before it is inserted.
Call(dest, msgid, source, comment) ==
    [dest |-> dest, msgid |-> msgid, source |-> source, comment |-> comment]

\* xgettext.rs 146-159: the calls made for the book title and description.
metadata_calls(title, description, granularity) ==
    (IF title.some /\ ~trim_is_empty(title.text)
     THEN <<Call(<<>>, title.text, build_source("book.toml", 1, granularity), "Book title")>>
     ELSE <<>>)
    \o
    (IF description.some /\ ~trim_is_empty(description.text)
     THEN <<Call(<<>>, description.text, build_source("book.toml", 1, granularity),
                 "Book description")>>
     ELSE <<>>)

\* xgettext.rs 165-179: the calls made for the messages of SUMMARY.md.
summary_calls(msgs, granularity) ==
    [i \in DOMAIN msgs |->
        Call(<<>>, strip_link(msgs[i].message),
             build_source("src/SUMMARY.md", msgs[i].lineno, granularity),
             msgs[i].comment)]

\* xgettext.rs 230-237: the calls made for the messages of a chapter.
chapter_calls(msgs, dest, path, granularity) ==
    [i \in DOMAIN msgs |->
        Call(dest, msgs[i].message,
             build_source("src/" \o path, msgs[i].lineno, granularity),
             msgs[i].comment)]

\* HashMap::insert and HashMap::entry(..).or_insert(..)
insert(map, key, value) ==
    [k \in DOMAIN map \cup {key} |-> IF k = key THEN value ELSE map[k]]

or_insert(map, key, value) ==
    IF key \in DOMAIN map THEN map ELSE insert(map, key, value)

\* The items of book.sections come in the order SUMMARY.md is read in: the
\* prefix chapters, then the part titles and the numbered chapters with
\* their sub-chapters, then the suffix chapters.  Prefix and suffix chapters
\* are unnumbered and have no sub-chapters.
HasSuffixChapter(walk) == \E i \in DOMAIN walk : walk[i].kind = "suffix"

ChapterKind(walk, numbered) ==
    IF numbered THEN "numbered"
    ELSE IF \A i \in DOMAIN walk : walk[i].kind = "prefix" THEN "prefix"
    ELSE "suffix"

CatalogInit ==
    /\ scatalog = <<>>
    /\ catalogs = <<>>
    /\ \E d \in 0..MaxDepthKnob : cpb = UniquePathBuilder_new(d, 1)
    /\ cgran \in Granularities
    /\ cphase = "metadata"
    /\ cqueue = <<>>
    /\ cnest = 0
    /\ citems = 0
    /\ cwalk = <<>>
    /\ PathIdle
    /\ GroupIdle
    /\ NormIdle
    /\ SourceIdle
    /\ RunIdle

\* xgettext.rs 143-159.
CatMetadata ==
    /\ cphase = "metadata"
    /\ \E title \in BookTitles, description \in BookDescriptions :
          cqueue' = metadata_calls(title, description, cgran)
    /\ cphase' = "summary"
    /\ UNCHANGED <<scatalog, catalogs, cpb, cgran, cnest, citems, cwalk>>
    /\ UNCHANGED <<PathVars, GroupVars, NormVars, SourceVars, RunVars>>

\* xgettext.rs 161-179.
CatSummary ==
    /\ cphase = "summary"
    /\ cqueue = <<>>
    /\ \E summary \in SummaryTexts :
          cqueue' = summary_calls(extract_messages(summary), cgran)
    /\ cphase' = "insert"
    /\ UNCHANGED <<scatalog, catalogs, cpb, cgran, cnest, citems, cwalk>>
    /\ UNCHANGED <<PathVars, GroupVars, NormVars, SourceVars, RunVars>>

\* One call of add_message (xgettext.rs 48-59), on the summary catalog or on
\* catalogs.entry(destination).
CatAddMessage ==
    /\ cqueue # <<>>
    /\ IF Head(cqueue).dest = <<>>
       THEN /\ scatalog' = add_message(scatalog, Head(cqueue).msgid,
                                      Head(cqueue).source, Head(cqueue).comment)
            /\ UNCHANGED catalogs
       ELSE /\ catalogs' = [catalogs EXCEPT ![Head(cqueue).dest] =
                                add_message(@, Head(cqueue).msgid,
                                            Head(cqueue).source, Head(cqueue).comment)]
            /\ UNCHANGED scatalog
    /\ cqueue' = Tail(cqueue)
    /\ UNCHANGED <<cpb, cgran, cphase, cnest, citems, cwalk>>
    /\ UNCHANGED <<PathVars, GroupVars, NormVars, SourceVars, RunVars>>

\* xgettext.rs 200-204.
CatInsert ==
    /\ cphase = "insert"
    /\ cqueue = <<>>
    /\ catalogs' = insert(catalogs, get(push(push(cpb, <<"s", "u", "m", "m", "a", "r", "y">>),
                                             <<"s", "u", "m", "m", "a", "r", "y">>)),
                          scatalog)
    /\ cpb' = pop(push(push(cpb, <<"s", "u", "m", "m", "a", "r", "y">>),
                       <<"s", "u", "m", "m", "a", "r", "y">>))
    /\ cphase' = "walk"
    /\ UNCHANGED <<scatalog, cgran, cqueue, cnest, citems, cwalk>>
    /\ UNCHANGED <<PathVars, GroupVars, NormVars, SourceVars, RunVars>>

\* xgettext.rs 208-215: a PartTitle item.
CatPartTitle ==
    /\ cphase = "walk"
    /\ cqueue = <<>>
    /\ cnest = 0
    /\ citems < MaxBookItems
    /\ ~HasSuffixChapter(cwalk)
    /\ \E title \in ChapterNames :
          /\ cpb' = push(pop(cpb), title)
          /\ cwalk' = Append(cwalk, [kind |-> "part", name |-> title, level |-> 1,
                                     dest |-> get(push(pop(cpb), title))])
    /\ citems' = citems + 1
    /\ UNCHANGED <<scatalog, catalogs, cgran, cphase, cqueue, cnest>>
    /\ UNCHANGED <<PathVars, GroupVars, NormVars, SourceVars, RunVars>>

\* get_subcontent_for_chapter up to the recursion (xgettext.rs 269-276) and
\* xgettext.rs 226-237 for this chapter.
CatEnterChapter ==
    /\ cphase = "walk"
    /\ cqueue = <<>>
    /\ citems < MaxBookItems
    /\ cnest > 0 => Last(cwalk).kind = "numbered"
    /\ \E name \in ChapterNames, path \in ChapterPaths, content \in ChapterContents,
          numbered \in BOOLEAN :
          /\ cnest > 0 => numbered
          /\ numbered => ~HasSuffixChapter(cwalk)
          /\ cwalk' = Append(cwalk, [kind |-> ChapterKind(cwalk, numbered),
                                     name |-> name,
                                     level |-> cnest + 2,
                                     dest |-> get(push(cpb, name))])
          /\ cpb' = push(cpb, name)
          /\ catalogs' = or_insert(catalogs, get(push(cpb, name)), <<>>)
          /\ cqueue' = chapter_calls(extract_messages(content), get(push(cpb, name)),
                                     path, cgran)
    /\ cnest' = cnest + 1
    /\ citems' = citems + 1
    /\ UNCHANGED <<scatalog, cgran, cphase>>
    /\ UNCHANGED <<PathVars, GroupVars, NormVars, SourceVars, RunVars>>

\* get_subcontent_for_chapter: xgettext.rs 290-291.
CatLeaveChapter ==
    /\ cphase = "walk"
    /\ cqueue = <<>>
    /\ cnest > 0
    /\ cpb' = pop(cpb)
    /\ cnest' = cnest - 1
    /\ UNCHANGED <<scatalog, catalogs, cgran, cphase, cqueue, citems, cwalk>>
    /\ UNCHANGED <<PathVars, GroupVars, NormVars, SourceVars, RunVars>>

\* xgettext.rs 245-248.
CatFinish ==
    /\ cphase = "walk"
    /\ cqueue = <<>>
    /\ cnest = 0
    /\ catalogs' = [k \in DOMAIN catalogs |-> dedup_sources(catalogs[k])]
    /\ cphase' = "done"
    /\ UNCHANGED <<scatalog, cpb, cgran, cqueue, cnest, citems, cwalk>>
    /\ UNCHANGED <<PathVars, GroupVars, NormVars, SourceVars, RunVars>>

CatalogNext ==
    \/ CatMetadata \/ CatSummary \/ CatAddMessage \/ CatInsert
    \/ CatPartTitle \/ CatEnterChapter \/ CatLeaveChapter \/ CatFinish

SpecCatalog == CatalogInit /\ [][CatalogNext]_vars

(***************************************************************************)
(* SpecPathCatalog: the runs of SpecPath together with those of            *)
(* SpecCatalog, for what is said of the builder on its own and as          *)
(* create_catalogs drives it.                                              *)
(***************************************************************************)
PathCatalogInit == PathInit \/ CatalogInit

PathCatalogNext == PathNext \/ CatalogNext

SpecPathCatalog == PathCatalogInit /\ [][PathCatalogNext]_vars

(***************************************************************************)
(* mdbook-i18n-normalize: normalize.rs 14-255.                             *)
(***************************************************************************)
\* parse_source: Some((path, lineno)) exactly for a word "path:lineno".
parse_source(word) == word.has_line

RECURSIVE compute_source_loop(_, _, _, _)
\* The loop of compute_source (normalize.rs 30-39) over the words left.
compute_source_loop(words, source, delta, new_source) ==
    IF words = <<>> THEN new_source
    ELSE compute_source_loop(Tail(words), source, delta,
            new_source
              \o (IF new_source # <<>> THEN <<NL>> ELSE <<>>)
              \o (IF parse_source(Head(words))
                  THEN <<Ref(Head(words).path, TRUE, Head(words).line + delta)>>
                  ELSE source))

\* compute_source: normalize.rs 27-42.
compute_source(source, delta) ==
    wrap_sources(compute_source_loop(source_words(source), source, delta, <<>>))

\* has_broken_link (normalize.rs 45-61): a reference link without a
\* definition.  The texts of the model are written without reference links.
has_broken_link(text) == FALSE

\* extract_document_messages: normalize.rs 20-25.
extract_document_messages(doc) == extract_messages(doc)

\* SourceMap::extract_messages for a text without broken links
\* (normalize.rs 121-124).
SourceMap_extract_messages(document) ==
    IF ~has_broken_link(document) THEN extract_document_messages(document) ELSE <<>>

RECURSIVE join_paragraphs(_)
\* join("\n\n")
join_paragraphs(ms) ==
    IF ms = <<>> THEN <<>>
    ELSE IF Len(ms) = 1 THEN ms[1].message
    ELSE ms[1].message \o <<"\n", "\n">> \o join_paragraphs(Tail(ms))

\* As pair_msgstrs, but the msgstrs beyond the n-th are dropped.
pair_msgstrs_truncating(n, strs) ==
    [i \in 1..n |-> IF i <= Len(strs) THEN strs[i].message ELSE <<>>]

\* normalize.rs 203-222: as many msgstrs as msgids.
pair_msgstrs(n, strs) ==
    IF n < Len(strs)
    THEN [i \in 1..n |-> IF i < n THEN strs[i].message
                         ELSE join_paragraphs(SubSeq(strs, n, Len(strs)))]
    ELSE [i \in 1..n |-> IF i <= Len(strs) THEN strs[i].message ELSE <<>>]

\* As fuzzy_flag, but only the flag of the entry counts.
fuzzy_flag_of_entry_only(message, ids, strs) == message.fuzzy

\* normalize.rs 195-201.
fuzzy_flag(message, ids, strs) ==
    message.fuzzy \/ (is_translated(message) /\ Len(ids) # Len(strs))

\* normalize.rs 224-232.
new_messages_of(message, ids, msgstrs, fuzzy) ==
    [i \in DOMAIN ids |->
        Message(ids[i].message, msgstrs[i], fuzzy,
                compute_source(message.source, ids[i].lineno - 1), "")]

\* As normalize_message, but an entry whose msgstr yields no message is
\* skipped as well.
normalize_message_translated_only(message, ids, strs) ==
    IF ids = <<>> \/ strs = <<>> THEN <<>>
    ELSE new_messages_of(message, ids, pair_msgstrs(Len(ids), strs),
                         fuzzy_flag(message, ids, strs))

\* The body of the first loop of normalize (normalize.rs 186-232).
normalize_message(message, ids, strs) ==
    IF ids = <<>> THEN <<>>
    ELSE new_messages_of(message, ids, pair_msgstrs(Len(ids), strs),
                         fuzzy_flag(message, ids, strs))

\* As merge_message, but the msgstr of a later translated message replaces
\* the one the entry has.
merge_message_last_wins(existing, new_message) ==
    [existing EXCEPT
        !.msgstr = IF is_translated(new_message) THEN new_message.msgstr ELSE @,
        !.fuzzy  = IF is_translated(new_message) THEN new_message.fuzzy ELSE @,
        !.source = @ \o <<NL>> \o new_message.source]

\* As merge_message, but the fuzzy flag of new_message is never copied.
merge_message_without_flag(existing, new_message) ==
    [existing EXCEPT
        !.msgstr = IF ~is_translated(existing) /\ is_translated(new_message)
                   THEN new_message.msgstr ELSE @,
        !.source = @ \o <<NL>> \o new_message.source]

\* normalize.rs 238-250: new_message meets the entry with its msgid.
merge_message(existing, new_message) ==
    [existing EXCEPT
        !.msgstr = IF ~is_translated(existing) /\ is_translated(new_message)
                   THEN new_message.msgstr ELSE @,
        !.fuzzy  = IF ~is_translated(existing) /\ is_translated(new_message)
                         /\ new_message.fuzzy
                   THEN TRUE ELSE @,
        !.source = @ \o <<NL>> \o new_message.source]

RECURSIVE merge_messages(_, _)
\* The second loop of normalize (normalize.rs 235-253).
merge_messages(new_messages, new_catalog) ==
    IF new_messages = <<>> THEN new_catalog
    ELSE merge_messages(Tail(new_messages),
            IF find_message(new_catalog, Head(new_messages).msgid) # 0
            THEN [new_catalog EXCEPT
                     ![find_message(new_catalog, Head(new_messages).msgid)] =
                         merge_message(@, Head(new_messages))]
            ELSE append_or_update(new_catalog, Head(new_messages)))

RECURSIVE normalize_loop(_)
normalize_loop(messages) ==
    IF messages = <<>> THEN <<>>
    ELSE normalize_message(Head(messages),
                           SourceMap_extract_messages(Head(messages).msgid),
                           SourceMap_extract_messages(Head(messages).msgstr))
            \o normalize_loop(Tail(messages))

\* normalize: normalize.rs 179-255.
normalize(c) == merge_messages(normalize_loop(c), <<>>)

\* new_messages (normalize.rs 184-233) kept apart by the entry of the
\* catalog that each message was made from.
normalize_entries(c) ==
    [i \in DOMAIN c |->
        normalize_message(c[i], SourceMap_extract_messages(c[i].msgid),
                          SourceMap_extract_messages(c[i].msgstr))]

(***************************************************************************)
(* SpecNorm: normalize run again and again on a catalog read from a PO     *)
(* file.                                                                   *)
(***************************************************************************)
MaxNormalizeRuns == 2
MaxNormMessages == 2
\* normalize is not run on a catalog with more references in a source field.
MaxSourceRefs == 8

NormMsgids ==
    { <<"a">>, <<"#", " ", "a">>, <<"a", "\n", "\n", "b">>, <<"<!--x-->">> }
NormMsgstrs ==
    { <<>>, <<"b">>, <<"b", "\n", "\n", "a">>,
      <<"b", "\n", "\n", "a", "\n", "\n", "c">> }
NormSources ==
    { <<Ref("a.md", TRUE, 1)>>,
      <<Ref("a.md", FALSE, 0), SP, Ref("b.md", FALSE, 0)>> }

\* References without line numbers are those of a catalog fresh from
\* mdbook-xgettext with granularity 0: untranslated and not fuzzy.
NormMessages ==
    { m \in { Message(id, str, fuzzy, source, "") :
                id \in NormMsgids, str \in NormMsgstrs, fuzzy \in BOOLEAN,
                source \in NormSources } :
        m.source[1].has_line \/ (m.msgstr = <<>> /\ ~m.fuzzy) }

\* The catalogs of a PO file: msgid is the key.
NormCatalogs ==
    { c \in UNION { [1..n -> NormMessages] : n \in 1..MaxNormMessages } :
        \A i, j \in DOMAIN c : c[i].msgid = c[j].msgid => i = j }

NormInit ==
    /\ \E c \in NormCatalogs : ncats = <<c>>
    /\ nnew = <<>>
    /\ PathIdle
    /\ GroupIdle
    /\ CatalogIdle
    /\ SourceIdle
    /\ RunIdle

Normalize ==
    /\ Len(ncats) <= MaxNormalizeRuns
    /\ \A i \in DOMAIN Last(ncats) : Len(source_words(Last(ncats)[i].source)) <= MaxSourceRefs
    /\ ncats' = Append(ncats, normalize(Last(ncats)))
    /\ nnew' = normalize_entries(Last(ncats))
    /\ UNCHANGED <<PathVars, GroupVars, CatalogVars, SourceVars, RunVars>>

NormNext == Normalize

SpecNorm == NormInit /\ [][NormNext]_vars

(***************************************************************************)
(* SpecSource: one call of build_source (xgettext.rs 73-84).               *)
(***************************************************************************)
MaxLineno == 20
MaxGranularity == 10

SourceInit ==
    /\ \E lineno \in 0..MaxLineno, granularity \in 0..MaxGranularity :
          bsargs = [path |-> "foo.md", lineno |-> lineno, granularity |-> granularity]
    /\ bsret = <<>>
    /\ PathIdle
    /\ GroupIdle
    /\ CatalogIdle
    /\ NormIdle
    /\ RunIdle

BuildSource ==
    /\ bsret = <<>>
    /\ bsret' = <<build_source(bsargs.path, bsargs.lineno, bsargs.granularity)>>
    /\ UNCHANGED <<bsargs, PathVars, GroupVars, CatalogVars, NormVars, RunVars>>

SourceNext == BuildSource

SpecSource == SourceInit /\ [][SourceNext]_vars

(***************************************************************************)
(* SpecGettext: one run of the Gettext preprocessor over a book            *)
(* (preprocessors/gettext.rs 29-102 and 186-262, gettext.rs 32-114).       *)
(***************************************************************************)
TextsOf(evs) == Concat([i \in DOMAIN evs |-> evs[i].text])

\* strip_formatting: gettext.rs 32-42.  extract_events has already turned
\* every SoftBreak into Text(" ").
strip_formatting(text) ==
    TextsOf(SelectSeq(extract_events(text, DefaultState),
                      LAMBDA e : e.tag \in {"Text", "Code"}))

\* translate: gettext.rs 44-58.
translate(text, catalog) ==
    reconstruct_markdown(
        Concat(translate_loop(group_events(extract_events(text, DefaultState), TokOk),
                              DefaultState, catalog)),
        DefaultState).md

\* msg.source().contains("SUMMARY.md"): gettext.rs 73
SummaryPaths == { "src/SUMMARY.md", "SUMMARY.md" }

source_contains_summary(source) ==
    \E i \in DOMAIN source : source[i].kind = "ref" /\ source[i].path \in SummaryPaths

\* gettext.rs 77-80: the message built for a message of SUMMARY.md.
stripped_message(msg) ==
    Message(strip_formatting(msg.msgid), strip_formatting(msg.msgstr), FALSE, <<>>, "")

stripped_messages(summary) == [i \in DOMAIN summary |-> stripped_message(summary[i])]

RECURSIVE append_or_update_all(_, _)
\* gettext.rs 84-86
append_or_update_all(catalog, msgs) ==
    IF msgs = <<>> THEN catalog
    ELSE append_or_update_all(append_or_update(catalog, Head(msgs)), Tail(msgs))

\* add_stripped_summary_translations: gettext.rs 67-87.
add_stripped_summary_translations(catalog) ==
    append_or_update_all(catalog,
        stripped_messages(SelectSeq(catalog, LAMBDA m : source_contains_summary(m.source))))

\* The items of a book: BookItem::Chapter, PartTitle and Separator.
Chapter(name, content) == [kind |-> "Chapter", name |-> name, content |-> content]
PartTitle(title) == [kind |-> "PartTitle", name |-> title, content |-> <<>>]
Separator == [kind |-> "Separator", name |-> <<>>, content |-> <<>>]

\* mutate_item: gettext.rs 89-101.
mutate_item(item, catalog) ==
    IF item.kind = "Chapter"
    THEN Chapter(translate(item.name, catalog), translate(item.content, catalog))
    ELSE IF item.kind = "PartTitle"
    THEN PartTitle(translate(item.name, catalog))
    ELSE item

\* translate_book: gettext.rs 104-112.
translate_book(catalog, book) == [i \in DOMAIN book |-> mutate_item(book[i], catalog)]

RECURSIVE trim_start(_)
trim_start(text) ==
    IF text # <<>> /\ is_whitespace(Head(text)) THEN trim_start(Tail(text)) ELSE text

RECURSIVE trim_end(_)
trim_end(text) ==
    IF text # <<>> /\ is_whitespace(Last(text)) THEN trim_end(Front(text)) ELSE text

\* str::trim
trim(text) == trim_end(trim_start(text))

\* One field of metadata_translations: preprocessors/gettext.rs 37-49.
metadata_translation(field, catalog) ==
    IF field.some /\ trim(translate(field.text, catalog)) # trim(field.text)
    THEN Some(translate(field.text, catalog))
    ELSE None

\* metadata_script: preprocessors/gettext.rs 54-90; the fixed pieces of the
\* script are one token each.
metadata_script(title, description) ==
    IF ~title.some /\ ~description.some THEN <<>>
    ELSE <<"\n", "\n", "<script>">>
            \o (IF title.some THEN <<"const title = ">> \o title.text ELSE <<>>)
            \o (IF description.some
                THEN <<"const description = ">> \o description.text ELSE <<>>)
            \o <<"</script>", "\n">>

\* inject_metadata_script: preprocessors/gettext.rs 92-101.
inject_metadata_script(book, script) ==
    [i \in DOMAIN book |->
        IF book[i].kind = "Chapter"
        THEN Chapter(book[i].name, book[i].content \o script)
        ELSE book[i]]

\* The PO file at get_catalog_path(ctx): missing, not to be examined
\* (try_exists fails), not a PO file, or a catalog.
PoMissing == [state |-> "missing", catalog |-> <<>>]
PoUnknown == [state |-> "unknown", catalog |-> <<>>]
PoMalformed == [state |-> "malformed", catalog |-> <<>>]
PoFile(catalog) == [state |-> "file", catalog |-> catalog]

\* should_translate that never looks for the PO file.
should_translate_by_language(ctx) ==
    IF ~ctx.language.some THEN FALSE
    ELSE ctx.has_gettext_table

\* should_translate: preprocessors/gettext.rs 192-202.  get_catalog_path
\* fails without a [preprocessor.gettext] table.
should_translate(ctx) ==
    IF ~ctx.language.some THEN FALSE
    ELSE ctx.has_gettext_table /\ ctx.po.state \in {"malformed", "file"}

RunOk(book, catalog, translated) ==
    [ok |-> TRUE, book |-> book, catalog |-> catalog, translated |-> translated]
RunErr == [ok |-> FALSE, book |-> <<>>, catalog |-> <<>>, translated |-> FALSE]

\* The body of the if of run, with the catalog that
\* add_stripped_summary_translations has updated.
run_translating(ctx, book, catalog) ==
    RunOk(inject_metadata_script(
              translate_book(catalog, book),
              metadata_script(metadata_translation(ctx.title, catalog),
                              metadata_translation(ctx.description, catalog))),
          catalog, TRUE)

\* Gettext::run: preprocessors/gettext.rs 245-262.  load_catalog fails
\* unless the file is there and is a PO file.
run(ctx, book) ==
    IF should_translate(ctx)
    THEN IF ctx.po.state # "file" THEN RunErr
         ELSE run_translating(ctx, book, add_stripped_summary_translations(ctx.po.catalog))
    ELSE RunOk(book, <<>>, FALSE)

MaxPoMessages == 2
MaxRunItems == 2

PoMsgids == { <<"a">>, <<LinkOpen, "a", LinkClose>> }
PoMsgstrs == { <<"b">>, <<LinkOpen, "b", LinkClose>> }
PoSources == { <<Ref("src/SUMMARY.md", TRUE, 1)>>, <<Ref("src/a.md", TRUE, 1)>> }

PoMessages ==
    { Message(id, str, fuzzy, source, "") :
        id \in PoMsgids, str \in PoMsgstrs, fuzzy \in BOOLEAN, source \in PoSources }

\* The catalogs a PO file can hold: the msgids are distinct.
PoCatalogs ==
    { c \in UNION { [1..n -> PoMessages] : n \in 0..MaxPoMessages } :
        \A i, j \in DOMAIN c : c[i].msgid = c[j].msgid => i = j }

PoFiles == { PoMissing, PoUnknown, PoMalformed } \cup { PoFile(c) : c \in PoCatalogs }

RunItems ==
    { Chapter(<<"a">>, <<"a", "\n">>),
      Chapter(<<"c">>, <<LinkOpen, "a", LinkClose, "\n">>),
      PartTitle(<<"a">>), Separator }

RunBooks == UNION { [1..n -> RunItems] : n \in 1..MaxRunItems }

RunInit ==
    /\ \E language \in { None, Some(<<"x", "x">>) }, table \in BOOLEAN, po \in PoFiles,
          title \in { None, Some(<<"a">>) }, description \in { None, Some(<<"c">>) } :
          pctx = [language |-> language, has_gettext_table |-> table, po |-> po,
                  title |-> title, description |-> description]
    /\ pbook \in RunBooks
    /\ pret = <<>>
    /\ PathIdle
    /\ GroupIdle
    /\ CatalogIdle
    /\ NormIdle
    /\ SourceIdle

Run ==
    /\ pctx # <<>>
    /\ pret = <<>>
    /\ pret' = run(pctx, pbook)
    /\ UNCHANGED <<pctx, pbook, PathVars, GroupVars, CatalogVars, NormVars, SourceVars>>

RunNext == Run

SpecGettext == RunInit /\ [][RunNext]_vars

(***************************************************************************)
(* Claims about group_events and translate_events.                         *)
(***************************************************************************)
\* The events of the groups, concatenated in order.
GroupEvents(gs) == Concat([i \in DOMAIN gs |-> gs[i].events])

\* C1: concatenating in order the event lists of all groups returned by
\* group_events(events) yields exactly events: the same events with the same
\* line numbers, none split, dropped, duplicated or reordered.
C1_GroupsConcatToEvents ==
    gphase \in {"grouped", "translated"} => GroupEvents(ggroups) = gev

IsSkipDirective(e) == IsHtmlEvent(e) /\ find(e.text).d = "Skip"

\* The index of the event at which the translatable group before the k-th
\* one was emitted (0 for the first).
EmittedFrom(k) == IF k = 1 THEN 0 ELSE emits[k - 1].at

\* A skip directive was read since the previous translatable group was
\* emitted and before the k-th one is.
SkipSeenBefore(k) ==
    \E j \in EmittedFrom(k)..(emits[k].at - 1) : IsSkipDirective(gev[j + 1])

\* C2: a skip directive reclassifies exactly one group: the first
\* translatable group emitted after the directive is emitted as Skip, every
\* translatable group emitted before the directive and every one after that
\* first one (until another skip directive is seen) is emitted as Translate.
C2_SkipReclassifiesExactlyNext ==
    \A k \in DOMAIN emits : (emits[k].via = "skip_next") <=> SkipSeenBefore(k)

\* The texts of the comment directives among events[from + 1 .. to].
CommentsBetween(events, from, to) ==
    LET ds == SelectSeq(SubSeq(events, from + 1, to),
                        LAMBDA e : IsHtmlEvent(e) /\ find(e.text).d = "Comment")
    IN  [i \in DOMAIN ds |-> find(ds[i].text).comment]

\* The k-th call emitted a group as Translate.
EmitsTranslate(k) ==
    \E i \in DOMAIN emits[k].groups : emits[k].groups[i].kind = "Translate"

\* The index of the event at which a group was last emitted as Translate
\* before the k-th call (0 if none was).
LastTranslateBefore(k) ==
    IF \E j \in 1..(k - 1) : EmitsTranslate(j)
    THEN emits[CHOOSE j \in 1..(k - 1) :
                  EmitsTranslate(j) /\ \A l \in (j + 1)..(k - 1) : ~EmitsTranslate(l)].at
    ELSE 0

\* The first group emitted as Translate by the k-th call.
FirstTranslateOf(k) ==
    emits[k].groups[CHOOSE i \in DOMAIN emits[k].groups :
                       /\ emits[k].groups[i].kind = "Translate"
                       /\ \A l \in 1..(i - 1) : emits[k].groups[l].kind # "Translate"]

\* C16: when no skip directive is pending, the texts of the comment
\* directives seen since the last emitted Translate group are attached,
\* joined by single spaces in order of appearance, to the next translatable
\* group; a comment is attached to at most one group, and a group with no
\* preceding comment directive gets the empty comment.
C16_CommentsAttachedToNextGroup ==
    \A k \in DOMAIN emits :
        (emits[k].via # "skip_next" /\ EmitsTranslate(k)) =>
            /\ FirstTranslateOf(k).comment
                  = join_comments(CommentsBetween(gev, LastTranslateBefore(k), emits[k].at))
            /\ Cardinality({ i \in DOMAIN emits[k].groups :
                                emits[k].groups[i].comment # "" }) <= 1

\* gev[p..e] is a paragraph: Start(Paragraph), its content, End(Paragraph).
IsParagraphSpan(p, e) ==
    /\ p < e
    /\ gev[p].tag = "StartParagraph"
    /\ gev[e].tag = "EndParagraph"
    /\ \A m \in (p + 1)..(e - 1) : gev[m].tag \notin {"StartParagraph", "EndParagraph"}

\* The call of into_groups made at the event with 0-based index idx, which
\* is gev[idx + 1].
EmittedAt(idx) == { k \in DOMAIN emits : emits[k].at = idx }

AllSkip(gs) == \A m \in DOMAIN gs : gs[m].kind = "Skip"

\* The k-th call was made for a code block with a recognised language
\* that holds one Text event, gev[emits[k].at].
IsCodeBlockCall(k) ==
    /\ emits[k].via = "codeblock"
    /\ emits[k].at >= 2
    /\ gev[emits[k].at + 1].tag = "EndCodeBlock"
    /\ gev[emits[k].at].tag = "Text"
    /\ gev[emits[k].at - 1].tag = "StartCodeBlock"
    /\ first_comma_token(gev[emits[k].at - 1].text) \in KnownSyntaxTokens

\* The Text events among the events of the groups the k-th call returned.
SubEvents(k) ==
    SelectSeq(GroupEvents(emits[k].groups), LAMBDA e : e.tag = "Text")

\* The offset in the original text at which the j-th sub-event starts, the
\* sub-events being consecutive pieces of it.
StartOffset(subs, j) == Len(Concat([i \in 1..(j - 1) |-> subs[i].text]))

NewlinesBefore(text, offset) ==
    Cardinality({i \in 1..offset : text[i] = "\n"})

\* C25: when a code block with a recognised language is split into
\* sub-events, the line of each sub-event is the line of the original Text
\* event plus the number of newlines in the original text before the start
\* offset of the sub-event, also when that offset directly follows a newline.
C25_SubEventLineCountsNewlines ==
    \A k \in DOMAIN emits :
        ( /\ IsCodeBlockCall(k)
          /\ Concat([j \in DOMAIN SubEvents(k) |-> SubEvents(k)[j].text])
                = gev[emits[k].at].text ) =>
            \A j \in DOMAIN SubEvents(k) :
                SubEvents(k)[j].line
                    = gev[emits[k].at].line
                        + NewlinesBefore(gev[emits[k].at].text,
                                         StartOffset(SubEvents(k), j))

\* The comments pending when the k-th call was made: those of the comment
\* directives read since a group was last emitted as Translate.
PendingComments(k) == CommentsBetween(gev, LastTranslateBefore(k), emits[k].at)

\* The l-th call is the first after the k-th to emit a group as Translate.
NextTranslateAfter(k, l) ==
    /\ k < l
    /\ EmitsTranslate(l)
    /\ \A j \in (k + 1)..(l - 1) : ~EmitsTranslate(j)

\* C30: a pending comment is consumed only when a group is emitted as
\* Translate: when the next translatable group is turned into Skip (by a skip
\* directive or by the code-block heuristic) the comment is neither attached
\* to it nor dropped, and the following group emitted as Translate gets it,
\* joined with the comments read in between.
C30_CommentSurvivesSkippedGroup ==
    \A k, l \in DOMAIN emits :
        ( /\ PendingComments(k) # <<>>
          /\ emits[k].via \in {"skip_next", "codeblock"}
          /\ AllSkip(emits[k].groups)
          /\ NextTranslateAfter(k, l) ) =>
            FirstTranslateOf(l).comment = join_comments(PendingComments(l))

\* A step in which one group of the Translate state is emitted while
\* skip_next_group is set: by the loop for the event just read, or at the end
\* of the input.
EmitsWithSkipPending ==
    /\ gphase = "grouping"
    /\ gst.kind = "Translate"
    /\ gctx.skip_next_group
    /\ Len(emits') = Len(emits) + 1

\* C24: a group of the Translate state that is emitted while skip_next is
\* set is emitted as Skip and the flag is cleared (so that it is set
\* afterwards only if the event just read is a skip directive); this holds
\* for the final group emitted at the end of the input as well.
C24_PendingSkipMakesSkipGroup ==
    [][ EmitsWithSkipPending =>
          /\ AllSkip(Last(emits').groups)
          /\ (gphase' = "grouping" /\ gctx'.skip_next_group)
                => IsSkipDirective(Last(gev')) ]_vars

\* gev[i] is an inline skip directive inside the paragraph gev[p..e], whose
\* events before the directive are inline events, and no skip directive was
\* pending when the directive was read.
InlineSkipInTranslate(p, i, e) ==
    /\ IsParagraphSpan(p, e)
    /\ p < i /\ i < e
    /\ gev[i].tag = "InlineHtml" /\ IsSkipDirective(gev[i])
    /\ \A m \in (p + 1)..(i - 1) : IsInlineEvent(gev[m])
    /\ \A k \in EmittedAt(i - 1) : ~SkipSeenBefore(k)

\* gev[e + 1..f] is the paragraph that follows, made of inline events only.
PlainParagraphAfter(e, f) ==
    /\ e + 1 \in DOMAIN gev
    /\ f \in DOMAIN gev
    /\ IsParagraphSpan(e + 1, f)
    /\ \A m \in (e + 2)..(f - 1) : IsInlineEvent(gev[m])

\* C17: when a skip directive appears as inline HTML inside a paragraph
\* that is being grouped as Translate, the events of the paragraph before
\* the directive are emitted as their own Translate group, all events from
\* the directive up to and including the end of that paragraph are emitted
\* as Skip, and the following paragraph is emitted as Translate.
C17_InlineSkipToEndOfParagraph ==
    \A p, i, e \in DOMAIN gev :
        InlineSkipInTranslate(p, i, e) =>
            /\ \E k \in EmittedAt(i - 1) :
                  /\ Len(emits[k].groups) = 1
                  /\ emits[k].groups[1].kind = "Translate"
                  /\ emits[k].groups[1].events = SubSeq(gev, p, i - 1)
            /\ EmittedAt(e - 1) # {}
            /\ \A k \in DOMAIN emits :
                  (emits[k].at \in i..(e - 1)) => AllSkip(emits[k].groups)
            /\ \A f \in DOMAIN gev :
                  PlainParagraphAfter(e, f) =>
                      \E k \in EmittedAt(f - 1) :
                          /\ emits[k].groups[1].kind = "Translate"
                          /\ emits[k].groups[1].events = SubSeq(gev, e + 1, f)

RECURSIVE group_msgids(_, _)
\* The reconstructed Markdown of each group, the serializer state threaded
\* through the groups as translate_events threads it.
group_msgids(gs, st) ==
    IF gs = <<>> THEN <<>>
    ELSE <<reconstruct_markdown(Head(gs).events, st).md>>
            \o group_msgids(Tail(gs), reconstruct_markdown(Head(gs).events, st).state)

\* The catalog has an entry for msgid with a non-empty msgstr and no fuzzy flag.
HasUsableEntry(catalog, msgid) ==
    \E i \in DOMAIN catalog :
        /\ catalog[i].msgid = msgid
        /\ catalog[i].msgstr # <<>>
        /\ ~catalog[i].fuzzy

C3_Replaced(i) == tsegs[i] # ggroups[i].events

\* C3: translate_events replaces the events of a Translate group only when
\* the catalog has an entry whose msgid is the group's reconstructed
\* Markdown, whose msgstr is non-empty and which is not fuzzy; in every other
\* case, and for every Skip group, the group's events are copied unchanged,
\* one output segment per group in the order of the groups.
C3_ReplacesOnlyUsable ==
    gphase = "translated" =>
        /\ Len(tsegs) = Len(ggroups)
        /\ \A i \in DOMAIN ggroups :
              C3_Replaced(i) =>
                 /\ ggroups[i].kind = "Translate"
                 /\ HasUsableEntry(tcat, group_msgids(ggroups, DefaultState)[i])

\* C3 witness: one Translate group was replaced by its translation and
\* another Translate group, whose catalog entry is missing, fuzzy or
\* untranslated, was copied.
C3_Witness ==
    /\ gphase = "translated"
    /\ tcat # <<>>
    /\ \E i, j \in DOMAIN ggroups :
          /\ C3_Replaced(i)
          /\ ggroups[j].kind = "Translate"
          /\ ~C3_Replaced(j)
          /\ tsegs[j] = ggroups[j].events

\* No group's reconstructed Markdown is a msgid of the catalog.
NoMsgidFound ==
    \A i \in DOMAIN ggroups :
        find_message(tcat, group_msgids(ggroups, DefaultState)[i]) = 0

\* C4: with an empty catalog, or one in which no group's msgid is found,
\* translate_events returns the concatenation of the groups' events, and
\* translate(s, catalog) equals reconstruct_markdown(extract_events(s)).
C4_EmptyCatalogIsIdentity ==
    (gphase = "translated" /\ NoMsgidFound) =>
        /\ Concat(tsegs) = GroupEvents(ggroups)
        /\ reconstruct_markdown(Concat(tsegs), DefaultState).md
              = reconstruct_markdown(gev, DefaultState).md

\* C4 witness: a document with a code block and a paragraph was translated
\* with a catalog that holds a message, none of which matches.
C4_Witness ==
    /\ gphase = "translated"
    /\ gdoc.some
    /\ tcat # <<>>
    /\ NoMsgidFound
    /\ \E i, j \in DOMAIN gev :
          gev[i].tag = "StartCodeBlock" /\ gev[j].tag = "StartParagraph"
    /\ \E i \in DOMAIN ggroups : ggroups[i].kind = "Translate"

(***************************************************************************)
(* Claims about extract_events.                                            *)
(***************************************************************************)
IsEndEvent(e) ==
    e.tag \in {"EndParagraph", "EndCodeBlock", "EndHeading", "EndHtmlBlock", "EndLink"}

StartTagOf(e) ==
    CASE e.tag = "EndParagraph" -> "StartParagraph"
      [] e.tag = "EndCodeBlock" -> "StartCodeBlock"
      [] e.tag = "EndHeading"   -> "StartHeading"
      [] e.tag = "EndHtmlBlock" -> "StartHtmlBlock"
      [] e.tag = "EndLink"      -> "StartLink"

\* The index of the Start event that the End event at index i closes.
MatchingStart(evs, i) ==
    CHOOSE j \in 1..(i - 1) :
        /\ evs[j].tag = StartTagOf(evs[i])
        /\ \A k \in (j + 1)..(i - 1) : evs[k].tag # StartTagOf(evs[i])

LinesInRange(evs, text) ==
    \A i \in DOMAIN evs : evs[i].line \in 1..lines_count(text)

\* C10 as stated: in the list returned by extract_events(s, None) the line
\* numbers are non-decreasing along the event sequence, and each line number
\* lies between 1 and the number of lines of s.
C10_LinesNonDecreasing ==
    gdoc.some =>
        /\ \A i, j \in DOMAIN gev : i < j => gev[i].line <= gev[j].line
        /\ LinesInRange(gev, gdoc.text)

\* C10 as amended: each line number lies between 1 and the number of lines
\* of s; the line numbers are non-decreasing along the events that are not
\* End events, and an End event carries the line number of its Start event.
C10_LinesNonDecreasingButEnds ==
    gdoc.some =>
        /\ LinesInRange(gev, gdoc.text)
        /\ \A i, j \in DOMAIN gev :
              (i < j /\ ~IsEndEvent(gev[i]) /\ ~IsEndEvent(gev[j]))
                  => gev[i].line <= gev[j].line
        /\ \A i \in DOMAIN gev :
              IsEndEvent(gev[i]) => gev[i].line = gev[MatchingStart(gev, i)].line

\* C10 witness: a paragraph that runs over two lines, whose End event
\* follows an event of a later line.
C10_Witness ==
    /\ gdoc.some
    /\ \E i \in DOMAIN gev :
          /\ i > 1
          /\ gev[i].tag = "EndParagraph"
          /\ gev[i - 1].line > gev[i].line

(***************************************************************************)
(* Claims about create_catalogs.                                           *)
(***************************************************************************)
\* C8: no catalog returned by create_catalogs contains a message with an
\* empty msgid, whatever the book title, description, SUMMARY.md text (also
\* after its links are stripped) and chapter contents are.
C8_NoEmptyMsgid ==
    cphase = "done" =>
        \A k \in DOMAIN catalogs : \A i \in DOMAIN catalogs[k] :
            catalogs[k][i].msgid # <<>>

UniqueMsgids(c) == \A i, j \in DOMAIN c : c[i].msgid = c[j].msgid => i = j

\* The catalog that the call at the head of the queue is made on.
CallCatalog == IF Head(cqueue).dest = <<>> THEN scatalog ELSE catalogs[Head(cqueue).dest]

\* The step is a call of add_message with a msgid its catalog already holds.
AddsExistingMsgid ==
    /\ cqueue # <<>>
    /\ cqueue' = Tail(cqueue)
    /\ find_message(CallCatalog, Head(cqueue).msgid) # 0

\* What a call of add_message with an existing msgid leaves behind: the same
\* number of messages, the entry at its position, the new source after the
\* existing ones, every other entry as it was.
ExistingMsgidUpdated(before, after, call) ==
    /\ Len(after) = Len(before)
    /\ \A i \in DOMAIN before :
          IF before[i].msgid = call.msgid
          THEN /\ after[i].msgid = call.msgid
               /\ after[i].source = before[i].source \o <<NL, call.source>>
          ELSE after[i] = before[i]

\* C9: within every catalog of create_catalogs each msgid occurs in exactly
\* one message; adding a msgid that is already present leaves the number of
\* messages and the entry's position unchanged and appends the new source
\* location after the existing ones.
C9_MsgidIsKey ==
    [][ /\ UniqueMsgids(scatalog')
        /\ \A k \in DOMAIN catalogs' : UniqueMsgids(catalogs'[k])
        /\ AddsExistingMsgid =>
              IF Head(cqueue).dest = <<>>
              THEN ExistingMsgidUpdated(scatalog, scatalog', Head(cqueue))
              ELSE ExistingMsgidUpdated(catalogs[Head(cqueue).dest],
                                        catalogs'[Head(cqueue).dest], Head(cqueue)) ]_vars

\* C9 witness: create_catalogs returned a catalog with more than one message
\* in which one message was added twice, from two different lines.
C9_Witness ==
    /\ cphase = "done"
    /\ \E k \in DOMAIN catalogs : \E i \in DOMAIN catalogs[k] :
          /\ Len(catalogs[k]) > 1
          /\ Len(source_words(catalogs[k][i].source)) > 1

(***************************************************************************)
(* Claims about normalize.                                                 *)
(***************************************************************************)
\* C5: normalize is idempotent: normalize(normalize(c)) equals normalize(c),
\* the same entries in the same order with the same msgid, msgstr, fuzzy
\* flag and source field.
C5_NormalizeIdempotent ==
    Len(ncats) >= 3 =>
        /\ Len(ncats[3]) = Len(ncats[2])
        /\ \A i \in DOMAIN ncats[2] :
              /\ ncats[3][i].msgid = ncats[2][i].msgid
              /\ ncats[3][i].msgstr = ncats[2][i].msgstr
              /\ ncats[3][i].fuzzy = ncats[2][i].fuzzy
              /\ ncats[3][i].source = ncats[2][i].source

\* The catalog that the last run of normalize was given.
NormInput == ncats[Len(ncats) - 1]

\* The catalog that the last run of normalize returned.
NormOutput == ncats[Len(ncats)]

NormRan == Len(ncats) >= 2

\* The number of messages extracted from a field of an entry.
Extracted(text) == Len(extract_messages(text))

\* C11: each message that normalize emits for an input entry, before the
\* merging of equal msgids, is flagged fuzzy if and only if the entry was
\* already fuzzy, or the entry was translated and the number of messages
\* extracted from its msgid differs from the number extracted from its
\* msgstr; all messages emitted for one entry carry the same flag.
C11_FuzzyIffFuzzyOrUneven ==
    NormRan =>
        \A i \in DOMAIN nnew : \A j \in DOMAIN nnew[i] :
            /\ nnew[i][j].fuzzy
                  <=> \/ NormInput[i].fuzzy
                      \/ /\ NormInput[i].msgstr # <<>>
                         /\ Extracted(NormInput[i].msgid) # Extracted(NormInput[i].msgstr)
            /\ nnew[i][j].fuzzy = nnew[i][1].fuzzy

\* C11 witness: an entry that was not fuzzy and was translated with fewer
\* paragraphs than its msgid has gave two fuzzy messages.
C11_Witness ==
    /\ NormRan
    /\ \E i \in DOMAIN nnew :
          /\ ~NormInput[i].fuzzy
          /\ Extracted(NormInput[i].msgid) = 2
          /\ Extracted(NormInput[i].msgstr) = 1
          /\ Len(nnew[i]) = 2
          /\ nnew[i][1].fuzzy /\ nnew[i][2].fuzzy

\* The msgstr that the j-th of n msgids receives from the m msgstrs.
PairedMsgstr(strs, n, j) ==
    IF Len(strs) > n /\ j = n
    THEN join_paragraphs(SubSeq(strs, n, Len(strs)))
    ELSE IF j <= Len(strs) THEN strs[j].message
    ELSE <<>>

NewMessages == Concat(nnew)

\* NewMessages[k] is the first normalized message with its msgid.
IsFirstOccurrence(k) ==
    \A l \in 1..(k - 1) : NewMessages[l].msgid # NewMessages[k].msgid

\* The position in the output of the entry for NewMessages[k].msgid.
OutputIndex(k) == Cardinality({ l \in 1..k : IsFirstOccurrence(l) })

\* The occurrences of the msgid of NewMessages[k] that have a msgstr.
TranslatedOccurrences(k) ==
    { l \in DOMAIN NewMessages :
        NewMessages[l].msgid = NewMessages[k].msgid /\ NewMessages[l].msgstr # <<>> }

FirstTranslated(k) ==
    CHOOSE l \in TranslatedOccurrences(k) : \A l2 \in TranslatedOccurrences(k) : l <= l2

\* The references of all occurrences of the msgid of NewMessages[k], in order.
OccurrenceSources(k) ==
    Concat([l \in DOMAIN NewMessages |->
               IF NewMessages[l].msgid = NewMessages[k].msgid
               THEN source_words(NewMessages[l].source) ELSE <<>>])

\* C13: when several normalized messages share a msgid, the output catalog
\* holds exactly one entry for it, at the position of the first occurrence,
\* whose msgstr is that of the first occurrence with a non-empty msgstr
\* (empty if there is none) and whose source lists the sources of all
\* occurrences in order.
C13_MergeKeepsFirstTranslation ==
    NormRan =>
        /\ Len(NormOutput) = Cardinality({ k \in DOMAIN NewMessages : IsFirstOccurrence(k) })
        /\ \A k \in DOMAIN NewMessages :
              IsFirstOccurrence(k) =>
                 /\ NormOutput[OutputIndex(k)].msgid = NewMessages[k].msgid
                 /\ NormOutput[OutputIndex(k)].msgstr
                       = IF TranslatedOccurrences(k) = {} THEN <<>>
                         ELSE NewMessages[FirstTranslated(k)].msgstr
                 /\ source_words(NormOutput[OutputIndex(k)].source) = OccurrenceSources(k)

\* C13 witness: two normalized messages share a msgid, the first without a
\* msgstr and the second with one, and a message with another msgid follows
\* them.
C13_Witness ==
    /\ NormRan
    /\ \E k, l \in DOMAIN NewMessages :
          /\ k < l
          /\ l < Len(NewMessages)
          /\ Len(NormOutput) = 2
          /\ IsFirstOccurrence(k)
          /\ NewMessages[l].msgid = NewMessages[k].msgid
          /\ NewMessages[k].msgstr = <<>>
          /\ NewMessages[l].msgstr # <<>>
          /\ NormOutput[OutputIndex(k)].msgstr = NewMessages[l].msgstr

\* NewMessages[k] is a first occurrence that later messages are merged into.
IsMerged(k) ==
    /\ IsFirstOccurrence(k)
    /\ \E l \in (k + 1)..Len(NewMessages) : NewMessages[l].msgid = NewMessages[k].msgid

C15_DropsOnlyEmptyMsgids ==
    NormRan =>
        /\ DOMAIN nnew = DOMAIN NormInput
        /\ \A i \in DOMAIN NormInput :
              /\ nnew[i] = <<>> <=> Extracted(NormInput[i].msgid) = 0
              /\ \A j \in DOMAIN nnew[i] :
                    \E o \in DOMAIN NormOutput : NormOutput[o].msgid = nnew[i][j].msgid

\* C15 witness: an entry whose msgid is an HTML comment was dropped, and an
\* untranslated entry next to it is in the output.
C15_Witness ==
    /\ NormRan
    /\ \E i, k \in DOMAIN NormInput :
          /\ NormInput[i].msgid = <<"<!--x-->">>
          /\ NormInput[i].msgstr # <<>>
          /\ nnew[i] = <<>>
          /\ NormInput[k].msgstr = <<>>
          /\ nnew[k] # <<>>
          /\ Len(NormOutput) = Len(nnew[k])

\* The path that the k+1-th push of path is given: the base name as it is for
\* k = 0, followed by -k otherwise.
SuffixedPath(path, k) ==
    IF k = 0 THEN path
    ELSE [path EXCEPT ![Len(path)] = @ \o "-" \o Decimal(k)]

\* The file names a chapter called name can get in a directory: its slug,
\* or its slug with a counter when the slug was taken.
ChapterFileNames(name) ==
    { with_extension(SuffixedPath(<<slug(name)>>, k), POT_EXTENSION)[1] :
          k \in 0..MaxBookItems }

\* C20: with depth >= 2 the messages of every chapter that belongs to no
\* part, a prefix chapter or a suffix chapter, go to the catalog
\* summary/<chapter-slug>.pot.
C20_UnpartedChaptersUnderSummary ==
    (cpb # <<>> /\ cpb.max_depth >= 2) =>
        \A i \in DOMAIN cwalk :
            cwalk[i].kind \in {"prefix", "suffix"} =>
                /\ Len(cwalk[i].dest) = 2
                /\ cwalk[i].dest[1] = "summary"
                /\ cwalk[i].dest[2] \in ChapterFileNames(cwalk[i].name)
                /\ cwalk[i].dest \in DOMAIN catalogs
                /\ i = Len(cwalk) =>
                      \A c \in DOMAIN cqueue : cqueue[c].dest = cwalk[i].dest

\* The catalog of the ancestor at level d of the i-th item walked: that of
\* the last item of level d walked before it, or summary.pot when d = 1 and
\* no part title came before.
AncestorCatalog(i, d) ==
    IF \E j \in 1..(i - 1) : cwalk[j].level = d
    THEN cwalk[CHOOSE j \in 1..(i - 1) :
                  /\ cwalk[j].level = d
                  /\ \A l \in (j + 1)..(i - 1) : cwalk[l].level # d].dest
    ELSE <<"summary.pot">>

C6_NoPathAllocatedTwice ==
    \A i, j \in DOMAIN allocs : i # j => allocs[i] # allocs[j]

Min(a, b) == IF a <= b THEN a ELSE b

\* One step of the builder: a push raises the depth, a pop lowers it, and a
\* pop at depth 0 is a call that leaves the depth at 0.
IsPushStep == pb1'.current_depth = pb1.current_depth + 1
IsPopStep == pb1'.current_depth = pb1.current_depth - 1
IsPopAtZeroStep ==
    pbops' = pbops + 1 /\ pb1.current_depth = 0 /\ pb1'.current_depth = 0

\* C18: the current path always has min(current_depth, max_depth) components:
\* a push that takes the depth above max_depth changes neither the path nor
\* what get() returns, the pop that undoes it does not shorten the path, and
\* a pop at depth 0 changes nothing.
C18_PathLengthIsCappedDepth ==
    /\ [](pb1 # <<>> =>
            Len(pb1.current_path) = Min(pb1.current_depth, pb1.max_depth))
    /\ [][ /\ (IsPushStep /\ pb1'.current_depth > pb1.max_depth) =>
                 /\ pb1'.current_path = pb1.current_path
                 /\ get(pb1') = get(pb1)
           /\ (IsPopStep /\ pb1.current_depth > pb1.max_depth) =>
                 pb1'.current_path = pb1.current_path
           /\ IsPopAtZeroStep => pb1' = pb1 ]_vars

\* C18 witness: a builder with a max_depth of at least 1 that stands at
\* max_depth with a path of max_depth components after at least three calls
\* that extended nothing: pushes above max_depth with their pops, or pops at
\* depth 0.
C18_Witness ==
    /\ pb1 # <<>>
    /\ pb1.max_depth >= 1
    /\ pb1.current_depth = pb1.max_depth
    /\ Len(pb1.current_path) = pb1.max_depth
    /\ pbops >= pb1.max_depth + 3
    /\ Len(pushes) = pb1.max_depth

\* The number of extending pushes before the n-th that pushed the same path.
EarlierPushes(n) ==
    Cardinality({m \in 1..(n - 1) : pushes[m].key = pushes[n].key})

\* The extending push that opened the directory the n-th push went into.
ParentPush(n) ==
    CHOOSE m \in 1..(n - 1) :
        /\ pushes[m].depth = pushes[n].depth - 1
        /\ \A l \in (m + 1)..(n - 1) : pushes[l].depth >= pushes[n].depth

\* C19: the k+1-th push of the same path within max_depth makes get() return
\* that path with the base name unsuffixed for k = 0 and followed by -k for
\* k >= 1, and a chapter pushed under an occurrence is placed in the
\* directory named like the file of that occurrence.
C19_RepeatedPushGetsCounterSuffix ==
    \A n \in DOMAIN pushes :
        /\ pushes[n].got =
              with_extension(SuffixedPath(pushes[n].key, EarlierPushes(n)),
                             POT_EXTENSION)
        /\ pushes[n].depth >= 2 =>
              with_extension(Front(pushes[n].got), POT_EXTENSION)
                  = pushes[ParentPush(n)].got

(***************************************************************************)
(* Claims about build_source.                                              *)
(***************************************************************************)

\* The multiples of g among the line numbers 1..lineno.
MultiplesUpTo(lineno, g) == {m \in 1..lineno : m % g = 0}

\* C22: build_source(path, lineno, g) returns path for g = 0, path:lineno
\* for g = 1 and, for g >= 2, path:n with n the largest multiple of g that is
\* at most lineno, or 1 when there is none; for g >= 2 and lineno >= 1 the
\* line n is at least 1, at most lineno, and is 1 or a multiple of g.
C22_BuildSourceRounds ==
    bsret # <<>> =>
        LET lineno == bsargs.lineno
            g      == bsargs.granularity
            ret    == bsret[1]
        IN  /\ ret.path = bsargs.path
            /\ g = 0 => ~ret.has_line
            /\ g = 1 => ret.has_line /\ ret.line = lineno
            /\ g >= 2 =>
                  /\ ret.has_line
                  /\ ret.line = Max(1, lineno - (lineno % g))
                  /\ IF MultiplesUpTo(lineno, g) = {}
                     THEN ret.line = 1
                     ELSE /\ ret.line \in MultiplesUpTo(lineno, g)
                          /\ \A m \in MultiplesUpTo(lineno, g) : m <= ret.line
                  /\ lineno >= 1 =>
                        /\ ret.line >= 1
                        /\ ret.line <= lineno
                        /\ ret.line = 1 \/ ret.line % g = 0

\* C22 witness: a call with g >= 2 whose line was rounded down to a multiple
\* of g, and the call for the line 0.
C22_Witness ==
    /\ bsret # <<>>
    /\ bsargs.granularity >= 2
    /\ \/ /\ bsargs.lineno > bsargs.granularity
          /\ bsargs.lineno % bsargs.granularity # 0
          /\ bsret[1].line < bsargs.lineno
          /\ bsret[1].line > 1
       \/ bsargs.lineno = 0 /\ bsret[1].line = 1

(***************************************************************************)
(* Claims about the depth 0 of UniquePathBuilder and create_catalogs.      *)
(***************************************************************************)
MessagesPot == <<"messages.pot">>

MsgidsOf(c) == { c[i].msgid : i \in DOMAIN c }

\* With depth 0, create_catalogs holds one catalog, keyed messages.pot, once
\* the summary catalog has been inserted.
Depth0OneCatalog ==
    (cpb # <<>> /\ cpb.max_depth = 0 /\ cphase \in {"walk", "done"}) =>
        DOMAIN catalogs = {MessagesPot}

\* With depth 0, every message added ends up in that catalog: a call of
\* add_message puts its msgid into the summary catalog or into
\* catalogs[messages.pot], the summary catalog is inserted as it is, and the
\* catalog loses no msgid afterwards.
Depth0KeepsMessages ==
    (cpb # <<>> /\ cpb.max_depth = 0) =>
        /\ (cqueue # <<>> /\ cqueue' = Tail(cqueue)) =>
              Head(cqueue).msgid \in
                  MsgidsOf(IF Head(cqueue).dest = <<>>
                           THEN scatalog' ELSE catalogs'[MessagesPot])
        /\ (cphase = "insert" /\ cphase' = "walk") =>
              catalogs'[MessagesPot] = scatalog
        /\ cphase = "walk" =>
              MsgidsOf(catalogs[MessagesPot]) \subseteq MsgidsOf(catalogs'[MessagesPot])

\* get() of a builder: messages.pot exactly at depth 0.
GetIsDefaultIffDepth0(b) ==
    b # <<>> =>
        /\ b.max_depth = 0 => get(b) = MessagesPot
        /\ b.max_depth >= 1 => (get(b) = MessagesPot <=> b.current_depth = 0)

\* get() of a builder: messages.pot at depth 0 and, above it, only for the
\* path made of the one component messages.
GetIsDefaultAtDepth0(b) ==
    b # <<>> =>
        /\ b.max_depth = 0 => get(b) = MessagesPot
        /\ b.max_depth >= 1 =>
              /\ b.current_depth = 0 => get(b) = MessagesPot
              /\ get(b) = MessagesPot =>
                    b.current_depth = 0 \/ b.current_path = <<"messages">>

\* C26: with max_depth = 0, get() returns messages.pot after any sequence of
\* push and pop, and with max_depth >= 1 it returns messages.pot exactly in
\* the states where current_depth is 0; create_catalogs with depth 0 returns
\* one catalog, keyed messages.pot, that holds the messages of the book
\* metadata, the summary and all chapters.
C26_MessagesPotIffDepth0 ==
    /\ [](GetIsDefaultIffDepth0(pb1) /\ GetIsDefaultIffDepth0(cpb) /\ Depth0OneCatalog)
    /\ [][Depth0KeepsMessages]_vars

\* C26, amended: as above, but with max_depth >= 1 get() returns
\* messages.pot in the states where current_depth is 0 and, besides them,
\* only in states whose current path is the single component messages.
C26_MessagesPotAtDepth0 ==
    /\ [](GetIsDefaultAtDepth0(pb1) /\ GetIsDefaultAtDepth0(cpb) /\ Depth0OneCatalog)
    /\ [][Depth0KeepsMessages]_vars

\* C26 witness: create_catalogs with depth 0 has walked two chapters or more
\* and returns the one catalog messages.pot with their messages and those of
\* the summary.
C26_Witness ==
    /\ cpb # <<>>
    /\ cpb.max_depth = 0
    /\ cphase = "done"
    /\ Len(SelectSeq(cwalk, LAMBDA w : w.kind # "part")) >= 2
    /\ DOMAIN catalogs = {MessagesPot}
    /\ \E i, j \in DOMAIN catalogs[MessagesPot] :
          /\ catalogs[MessagesPot][i].source[1].path = "src/SUMMARY.md"
          /\ catalogs[MessagesPot][j].source[1].path \in {"src/a.md", "src/b.md"}

(***************************************************************************)
(* Claims about the events translate_events writes for a group.           *)
(***************************************************************************)
StartTags ==
    { "StartParagraph", "StartCodeBlock", "StartHeading", "StartHtmlBlock",
      "StartLink", "StartImage", "StartEmphasis", "StartStrong",
      "StartStrikethrough" }

EndTags ==
    { "EndParagraph", "EndCodeBlock", "EndHeading", "EndHtmlBlock",
      "EndLink", "EndImage", "EndEmphasis", "EndStrong", "EndStrikethrough" }

EndTagOf(tag) ==
    CASE tag = "StartParagraph" -> "EndParagraph"
      [] tag = "StartCodeBlock" -> "EndCodeBlock"
      [] tag = "StartHeading" -> "EndHeading"
      [] tag = "StartHtmlBlock" -> "EndHtmlBlock"
      [] tag = "StartLink" -> "EndLink"
      [] tag = "StartImage" -> "EndImage"
      [] tag = "StartEmphasis" -> "EndEmphasis"
      [] tag = "StartStrong" -> "EndStrong"
      [] OTHER -> "EndStrikethrough"

RECURSIVE NestedWithin(_, _)
\* Every End of evs closes the innermost open Start, those of `open`
\* included, and nothing is left open.
NestedWithin(evs, open) ==
    IF evs = <<>> THEN open = <<>>
    ELSE IF Head(evs).tag \in StartTags
         THEN NestedWithin(Tail(evs), <<Head(evs).tag>> \o open)
    ELSE IF Head(evs).tag \in EndTags
         THEN /\ open # <<>>
              /\ EndTagOf(Head(open)) = Head(evs).tag
              /\ NestedWithin(Tail(evs), Tail(open))
    ELSE NestedWithin(Tail(evs), open)

WellNested(evs) == NestedWithin(evs, <<>>)

RECURSIVE StateBeforeGroup(_, _, _)
\* The state translate_events holds when its loop reaches the k-th group.
StateBeforeGroup(gs, k, st) ==
    IF k = 1 THEN st
    ELSE StateBeforeGroup(Tail(gs), k - 1,
                          reconstruct_markdown(Head(gs).events, st).state)

\* The events parsed from the msgstr used for the k-th group.
MsgstrEvents(k) ==
    extract_events(
        tcat[find_message(tcat,
                reconstruct_markdown(ggroups[k].events,
                    StateBeforeGroup(ggroups, k, DefaultState)).md)].msgstr,
        StateBeforeGroup(ggroups, k, DefaultState))

IsTranslatedGroup(k) ==
    /\ ggroups[k].kind = "Translate"
    /\ Usable(tcat, reconstruct_markdown(ggroups[k].events,
                        StateBeforeGroup(ggroups, k, DefaultState)).md)

\* C29: for every Translate group that has a usable translation, the events
\* written in place of the group are well nested whenever the events parsed
\* from the msgstr are: trim_paragraph removes a leading Start(Paragraph)
\* and a trailing End(Paragraph) only when they delimit the same paragraph.
C29_SpliceIsWellNested ==
    gphase = "translated" =>
        \A k \in DOMAIN ggroups :
            (IsTranslatedGroup(k) /\ WellNested(MsgstrEvents(k))) =>
                WellNested(tsegs[k])

(***************************************************************************)
(* Claims about reconstruct_markdown after extract_events.                 *)
(***************************************************************************)
\* reconstruct_markdown(&extract_events(s, None), None).0
RoundTrip(s) ==
    reconstruct_markdown(extract_events(s, DefaultState), DefaultState).md

C21_NoLanguageOrNoPoFileIsNoOp ==
    (pret # <<>> /\ (~pctx.language.some \/ pctx.po.state = "missing")) =>
        (pret.ok /\ pret.book = pbook)

\* run has returned for a book with a language and a gettext table whose PO
\* file is missing, and the book holds a chapter.
C21_Witness ==
    /\ pret # <<>>
    /\ pctx.language.some
    /\ pctx.has_gettext_table
    /\ pctx.po.state = "missing"
    /\ pctx.title.some
    /\ \E i \in DOMAIN pbook : pbook[i].kind = "Chapter"

\* The entry m of the PO file is a fuzzy message of SUMMARY.md.
IsFuzzySummary(m) == m.fuzzy /\ source_contains_summary(m.source)

\* After add_stripped_summary_translations the translator substitutes the
\* msgstr of m, as it is or stripped, for msgid, which it did not do with
\* the catalog as loaded.
MadeUsable(m, msgid) ==
    /\ Usable(pret.catalog, msgid)
    /\ pret.catalog[find_message(pret.catalog, msgid)].msgstr
           \in {m.msgstr, strip_formatting(m.msgstr)}
    /\ ~( /\ Usable(pctx.po.catalog, msgid)
          /\ pctx.po.catalog[find_message(pctx.po.catalog, msgid)].msgstr
               = pret.catalog[find_message(pret.catalog, msgid)].msgstr )

\* C28: add_stripped_summary_translations never makes a fuzzy translation
\* usable: for an entry of a SUMMARY.md message that is fuzzy in the PO
\* file, the translator substitutes its msgstr neither for its msgid nor
\* for the formatting-stripped msgid.
C28_FuzzySummaryStaysUnused ==
    (pret # <<>> /\ pret.translated) =>
        \A i \in DOMAIN pctx.po.catalog :
            IsFuzzySummary(pctx.po.catalog[i]) =>
                /\ ~MadeUsable(pctx.po.catalog[i], pctx.po.catalog[i].msgid)
                /\ ~MadeUsable(pctx.po.catalog[i],
                               strip_formatting(pctx.po.catalog[i].msgid))

====
